---- MODULE Spec2Model ----
(***************************************************************************)
(* A model of TaskForge's Jira synchronisation engine:                     *)
(*   taskforge/config.py       Settings.validate_jira_config               *)
(*   taskforge/jira_client.py  JiraClient (retry loop, search, pagination, *)
(*                             hierarchy chase)                            *)
(*   taskforge/api/*.py        the routes that reach the remote API and    *)
(*                             the permit pool _JIRA_SEMAPHORE             *)
(*   taskforge/tree.py         build_tree, flatten_tree                    *)
(*   taskforge/storage.py      save_snapshot, SQLiteStore                  *)
(*   taskforge/queries.py      find_blocked, rank_next                     *)
(*   taskforge/normalizer.py   normalize_issue                             *)
(*   taskforge/api/routes_issues.py  the /issues result cache              *)
(*   taskforge/cli/main.py, api/routes_system.py  the sync command         *)
(* Each layer is a state machine of its own specification (SpecConfig,     *)
(* SpecRetry, SpecSearch, SpecFetch, SpecHier, SpecGate, SpecTree,         *)
(* SpecStore, SpecHistory, SpecBlocked, SpecRank, SpecNormalize,           *)
(* SpecCache, SpecSync); a layer idle in a specification keeps its         *)
(* initial value.                                                          *)
(***************************************************************************)
EXTENDS Integers, Sequences, FiniteSets, TLC

VARIABLES
    settings,   \* the Settings object the client was given
    jc,         \* JiraClient: constructor outcome, _client, requests sent
    rr,         \* the running JiraClient._request_with_retry call
    ss,         \* the running JiraClient._search_issues call
    fa,         \* the running JiraClient.fetch_all_assigned call
    fh,         \* the running JiraClient.fetch_with_hierarchy call
    gate,       \* the API process: event loop, _JIRA_SEMAPHORE, route handlers
    tr,         \* tree.py: the record list given to build_tree and what came back
    snap,       \* storage.py: the snapshot files, the clock, the running syncs
    db,         \* storage.py: the SQLite history database
    qr,         \* queries.py: the inputs of find_blocked / rank_next and their results
    nz,         \* normalizer.py: the raw record given to normalize_issue and its outcome
    ch,         \* api/routes_issues.py: _TTL_CACHE, the clock and the requests served
    sy          \* the running sync command: its position and what it saw at its start

vars == <<settings, jc, rr, ss, fa, fh, gate, tr, snap, db, qr, nz, ch, sy>>

\* Python's None, where the other values are strings.
None == "None"

(***************************************************************************)
(* Bounds of the model.                                                    *)
(***************************************************************************)
\* jira_max_retries ranges over 0..MaxRetries.
MaxRetries == 2
\* find_blocked and rank_next are given lists of up to MaxQueryIssues records.
MaxQueryIssues == 2
\* rank_next is called up to MaxRankCalls times on the same input.
MaxRankCalls == 2
\* A raw record has up to MaxLinks issue links, and up to MaxLinks subtasks.
MaxLinks == 2
\* The /issues route serves up to MaxRequests requests, over MaxCacheTicks
\* steps of the clock.
MaxRequests == 3
MaxCacheTicks == 3
\* The sync command is run up to MaxSyncRuns times.
MaxSyncRuns == 2
\* fetch_all_assigned returns up to MaxPrimary records to fetch_with_hierarchy.
MaxPrimary == 2
\* build_tree is given lists of up to MaxIssues records.
MaxIssues == 3
\* Up to MaxSyncs syncs call save_snapshot.
MaxSyncs == 2
\* Up to MaxRecordSyncs syncs call SQLiteStore.record_sync: the first
\* MaxVariedSyncs of them with any record list at any clock reading, the
\* later ones with an empty list at the latest reading.
MaxRecordSyncs == 21
MaxVariedSyncs == 2
\* The requests the API process serves at a time.
NumCallers == 4

(***************************************************************************)
(* config.py: Settings                                                     *)
(***************************************************************************)
\* A URL is a sequence of segments, so that rstrip("/") is an operation.
BaseUrls == {<<>>, <<"/">>, <<"https://jira.example">>, <<"https://jira.example", "/">>}
AuthModes == {"cloud", "server", "oauth"}
Emails == {"", "user@example.com"}
Tokens == {"", "pat-123"}

validate_jira_config_email_in_any_mode(s) ==
    (IF s.jira_base_url = <<>> THEN <<"JIRA_BASE_URL">> ELSE <<>>)
    \o (IF s.jira_api_token = "" THEN <<"JIRA_API_TOKEN">> ELSE <<>>)
    \o (IF s.jira_email = "" THEN <<"JIRA_EMAIL">> ELSE <<>>)
    \o (IF s.jira_auth_mode \notin {"cloud", "server"} THEN <<"JIRA_AUTH_MODE">> ELSE <<>>)

\* Settings.validate_jira_config: the list of error messages, by the name of
\* the setting each one is about.
validate_jira_config(s) ==
    (IF s.jira_base_url = <<>> THEN <<"JIRA_BASE_URL">> ELSE <<>>)
    \o (IF s.jira_api_token = "" THEN <<"JIRA_API_TOKEN">> ELSE <<>>)
    \o (IF s.jira_auth_mode = "cloud" /\ s.jira_email = "" THEN <<"JIRA_EMAIL">> ELSE <<>>)
    \o (IF s.jira_auth_mode \notin {"cloud", "server"} THEN <<"JIRA_AUTH_MODE">> ELSE <<>>)

\* str.rstrip("/") on a URL.
RECURSIVE rstrip_slash(_)
rstrip_slash(u) ==
    IF u # <<>> /\ u[Len(u)] = "/" THEN rstrip_slash(SubSeq(u, 1, Len(u) - 1)) ELSE u

AllSettings ==
    [jira_base_url : BaseUrls, jira_auth_mode : AuthModes, jira_email : Emails,
     jira_api_token : Tokens, jira_max_retries : 0..MaxRetries]

\* The settings the transport layers run with: a client that was constructed.
ValidSettings == {s \in AllSettings : validate_jira_config(s) = <<>>
                                      /\ rstrip_slash(s.jira_base_url) # <<>>}

(***************************************************************************)
(* jira_client.py: JiraClient.__init__, _build_client, client, close       *)
(***************************************************************************)
JcNew == [ctor |-> "none", client |-> "unset", sent |-> 0]
JcReady == [ctor |-> "ok", client |-> "built", sent |-> 0]

\* JiraClient.__init__: validate before doing anything.
JiraClient_init ==
    /\ jc.ctor = "none"
    /\ jc' = [jc EXCEPT !.ctor = IF validate_jira_config(settings) # <<>>
                                 THEN "JiraClientError" ELSE "ok"]
    /\ UNCHANGED <<settings, rr, ss, fa, fh, gate, tr, snap, db, qr, nz, ch, sy>>

\* JiraClient._build_client through the client property: built once, lazily.
build_client ==
    /\ jc.ctor = "ok"
    /\ jc.client = "unset"
    /\ jc' = [jc EXCEPT !.client = IF rstrip_slash(settings.jira_base_url) = <<>>
                                   THEN "JiraClientError" ELSE "built"]
    /\ UNCHANGED <<settings, rr, ss, fa, fh, gate, tr, snap, db, qr, nz, ch, sy>>

\* A request through self.client (the first of a client's life, for SpecConfig).
client_request ==
    /\ jc.ctor = "ok"
    /\ jc.client = "built"
    /\ jc.sent = 0
    /\ jc' = [jc EXCEPT !.sent = 1]
    /\ UNCHANGED <<settings, rr, ss, fa, fh, gate, tr, snap, db, qr, nz, ch, sy>>

\* JiraClient.close: drops the HTTP client; the next use builds a new one.
close ==
    /\ jc.ctor = "ok"
    /\ jc.client = "built"
    /\ jc' = [jc EXCEPT !.client = "unset"]
    /\ UNCHANGED <<settings, rr, ss, fa, fh, gate, tr, snap, db, qr, nz, ch, sy>>

(***************************************************************************)
(* jira_client.py: JiraClient._request_with_retry                          *)
(***************************************************************************)
\* A header value is a string, kept as its characters; absent is not "".
NoHeader == [present |-> FALSE, value |-> <<>>]
Header(chars) == [present |-> TRUE, value |-> chars]
RetryAfterHeaders == {NoHeader, Header(<<"2">>), Header(<<"1", "0">>), Header(<<"F", "r", "i">>)}

Digits == {"0", "1", "2", "3", "4", "5", "6", "7", "8", "9"}
DigitValue(c) ==
    CASE c = "0" -> 0 [] c = "1" -> 1 [] c = "2" -> 2 [] c = "3" -> 3 [] c = "4" -> 4
      [] c = "5" -> 5 [] c = "6" -> 6 [] c = "7" -> 7 [] c = "8" -> 8 [] c = "9" -> 9

\* int(value): the decimal value, or ValueError (here -1) for a string that is
\* not a run of digits.
RECURSIVE int_of(_)
int_of(chars) ==
    IF chars = <<>> \/ \E i \in 1..Len(chars) : chars[i] \notin Digits THEN -1
    ELSE IF Len(chars) = 1 THEN DigitValue(chars[1])
    ELSE 10 * int_of(SubSeq(chars, 1, Len(chars) - 1)) + DigitValue(chars[Len(chars)])

parse_retry_after_no_header(value, default) == default

\* JiraClient._parse_retry_after
parse_retry_after(value, default) ==
    IF ~value.present THEN default
    ELSE IF int_of(value.value) = -1 THEN default
    ELSE int_of(value.value)

\* What one self.client.request(...) can do: raise httpx.TransportError, or
\* answer with a status and, on a throttled or failed answer, a Retry-After.
StatusCodes == {200, 404, 429, 503}
ServerOutcomes ==
    {[kind |-> "transport", status |-> 0, retry_after |-> NoHeader]}
    \cup {[kind |-> "response", status |-> st, retry_after |-> NoHeader] : st \in {200, 404}}
    \cup [kind : {"response"}, status : {429, 503}, retry_after : RetryAfterHeaders]

is_retryable_only_429(status) == status = 429

\* resp.status_code == 429 or resp.status_code >= 500
is_retryable(status) == status = 429 \/ status >= 500

\* httpx.Response.raise_for_status raises for every status that is not 2xx.
is_success(status) == status >= 200 /\ status < 300

RrIdle ==
    [pc |-> "idle", method |-> None, url |-> None, attempt |-> 0,
     outcomes |-> <<>>, waits |-> <<>>, status |-> 0]

\* The state of a call that has just entered the for loop.
RrCall(method, url) == [RrIdle EXCEPT !.pc = "loop", !.method = method, !.url = url]

RrDone == {"returned", "JiraClientError", "HTTPStatusError"}

\* One iteration of `for attempt in range(max_retries + 1)`: the request, its
\* outcome o, and the sleep before `continue`.  A loop left without return or
\* raise ends in JiraClientError("Unexpected retry loop exit").
rr_iteration(r, o, max_retries) ==
    LET a == r.attempt
        seen == [r EXCEPT !.outcomes = Append(@, o), !.status = o.status]
        again(wait) ==
            [seen EXCEPT !.waits = Append(@, wait), !.attempt = a + 1,
                         !.pc = IF a + 1 < max_retries + 1 THEN "loop" ELSE "JiraClientError"]
    IN  IF o.kind = "transport" THEN
            IF a >= max_retries THEN [seen EXCEPT !.pc = "JiraClientError"]
            ELSE again(2 ^ a)
        ELSE IF is_retryable(o.status) THEN
            IF a >= max_retries THEN [seen EXCEPT !.pc = "JiraClientError"]
            ELSE again(parse_retry_after(o.retry_after, 2 ^ a))
        ELSE IF ~is_success(o.status) THEN [seen EXCEPT !.pc = "HTTPStatusError"]
        ELSE [seen EXCEPT !.pc = "returned"]

\* A caller enters _request_with_retry (SpecRetry: any method and URL).
request_with_retry_call ==
    /\ rr.pc = "idle"
    /\ \E m \in {"GET", "POST"} : rr' = RrCall(m, "/rest/api/3/myself")
    /\ UNCHANGED <<settings, jc, ss, fa, fh, gate, tr, snap, db, qr, nz, ch, sy>>

request_with_retry_step ==
    /\ rr.pc = "loop"
    /\ \E o \in ServerOutcomes : rr' = rr_iteration(rr, o, settings.jira_max_retries)
    /\ UNCHANGED <<settings, jc, ss, fa, fh, gate, tr, snap, db, qr, nz, ch, sy>>

(***************************************************************************)
(* jira_client.py: JiraClient._search_issues                               *)
(***************************************************************************)
\* The four requests _search_issues can make, in the order of the code.
Variants == {"cursor", "v3post", "v3get", "v2post"}

Endpoint(v) ==
    CASE v = "cursor" -> [method |-> "POST", url |-> "/rest/api/3/search/jql"]
      [] v = "v3post" -> [method |-> "POST", url |-> "/rest/api/3/search"]
      [] v = "v3get"  -> [method |-> "GET",  url |-> "/rest/api/3/search"]
      [] v = "v2post" -> [method |-> "POST", url |-> "/rest/api/2/search"]

\* The arguments fetch_all_assigned and the routes call _search_issues with:
\* a token is None or a non-empty string (fetch_all_assigned stops on an
\* empty one), start_at is 0 or a multiple of the page size.
SearchTokens == {None, "T1"}
SearchStartAts == {0, 100}

use_cursor_any_page(next_token, start_at, auth_mode) ==
    next_token # None \/ auth_mode = "cloud"

\* use_cursor = next_token is not None or (start_at == 0 and auth_mode == "cloud")
use_cursor(next_token, start_at, auth_mode) ==
    next_token # None \/ (start_at = 0 /\ auth_mode = "cloud")

\* `if next_token:` of the cursor payload and of the except clause.
truthy(token) == token # None /\ token # ""

after_v3post_v2post(v) ==
    CASE v = "cursor" -> "v3post" [] v = "v3post" -> "v2post" [] v = "v2post" -> "v3get"
      [] v = "v3get" -> None

\* The request made after variant v failed and its except clause let the
\* failure pass; None after the last one, whose failure leaves the call.
next_variant(v) ==
    CASE v = "cursor" -> "v3post" [] v = "v3post" -> "v3get" [] v = "v3get" -> "v2post"
      [] v = "v2post" -> None

SsIdle ==
    [pc |-> "idle", start_at |-> 0, next_token |-> None, tried |-> <<>>,
     result |-> None, exc |-> None]

\* The request of variant v as sent: the cursor payload never carries startAt
\* and carries nextPageToken when the token is truthy; the others carry startAt.
Tried(v, start_at, next_token) ==
    [variant |-> v, method |-> Endpoint(v).method, url |-> Endpoint(v).url,
     token |-> IF v = "cursor" /\ truthy(next_token) THEN next_token ELSE None,
     startAt |-> IF v = "cursor" THEN -1 ELSE start_at,
     ok |-> "pending"]

\* Entry of _search_issues up to its first _request_with_retry call.
search_issues_call ==
    /\ ss.pc = "idle"
    /\ rr.pc = "idle"
    /\ \E start_at \in SearchStartAts, next_token \in SearchTokens :
         LET v == IF use_cursor(next_token, start_at, settings.jira_auth_mode)
                  THEN "cursor" ELSE "v3post"
         IN  /\ ss' = [ss EXCEPT !.pc = v, !.start_at = start_at, !.next_token = next_token,
                                 !.tried = <<Tried(v, start_at, next_token)>>]
             /\ rr' = RrCall(Endpoint(v).method, Endpoint(v).url)
    /\ UNCHANGED <<settings, jc, fa, fh, gate, tr, snap, db, qr, nz, ch, sy>>

\* A _request_with_retry call of _search_issues has ended: return resp.json(),
\* or the except clause and the next request, or the exception leaves the call.
search_issues_resume ==
    /\ ss.pc \in Variants
    /\ rr.pc \in RrDone
    /\ LET n == Len(ss.tried)
           nxt == next_variant(ss.pc)
       IN  IF rr.pc = "returned" THEN
               /\ ss' = [ss EXCEPT !.pc = "returned", !.result = ss.pc, !.tried[n].ok = "ok"]
               /\ rr' = RrIdle
           ELSE IF (ss.pc = "cursor" /\ truthy(ss.next_token)) \/ nxt = None THEN
               /\ ss' = [ss EXCEPT !.pc = "raised", !.exc = rr.pc, !.tried[n].ok = "failed"]
               /\ rr' = RrIdle
           ELSE
               /\ ss' = [ss EXCEPT !.pc = nxt, !.tried[n].ok = "failed",
                                   !.tried = Append(@, Tried(nxt, ss.start_at, ss.next_token))]
               /\ rr' = RrCall(Endpoint(nxt).method, Endpoint(nxt).url)
    /\ UNCHANGED <<settings, jc, fa, fh, gate, tr, snap, db, qr, nz, ch, sy>>

(***************************************************************************)
(* jira_client.py: JiraClient.fetch_all_assigned                           *)
(***************************************************************************)
page_size == 100
MAX_ISSUES_HARD_CAP == 500

\* A key the response dict does not hold ("nextPageToken" in data is False).
Absent == "absent"

\* The k-th page's continuation token, when the server issues one: the server
\* never issues the same token twice.
FreshToken(k) == <<"T1", "T2", "T3", "T4", "T5">>[k]

\* The number of issues of a page: none, a short page, a full page, and a
\* page longer than max_results asked for (the code does not check).
PageLengths == {0, 40, page_size, page_size + 40}

\* data.get("total", -1): offset responses carry a total, cursor ones do not.
Totals == {-1, 100, 250}

\* What the k-th _search_issues call of one fetch can return: a response
\* that holds nextPageToken (a token, or null) is a cursor response and
\* carries no total.
Pages(k) ==
    {p \in [issues : PageLengths, nextPageToken : {Absent, None, FreshToken(k)}, total : Totals] :
        p.nextPageToken # Absent => p.total = -1}

FaIdle ==
    [pc |-> "idle", start_at |-> 0, next_token |-> None, all_issues |-> 0,
     calls |-> <<>>, pages |-> <<>>]

fetch_all_assigned_call ==
    /\ fa.pc = "idle"
    /\ fa' = [fa EXCEPT !.pc = "loop"]
    /\ UNCHANGED <<settings, jc, rr, ss, fh, gate, tr, snap, db, qr, nz, ch, sy>>

\* The pagination state after a page that did not end the loop.
next_page_state(f, data) ==
    IF data.nextPageToken # Absent
    THEN [f EXCEPT !.next_token = data.nextPageToken]
    ELSE [f EXCEPT !.start_at = @ + data.issues]

\* loop_breaks without `if len(issues) < page_size: break`.
loop_breaks_on_short_page_dropped(f, data) ==
    \/ data.issues = 0
    \/ data.nextPageToken # Absent /\ ~truthy(data.nextPageToken)
    \/ /\ data.nextPageToken = Absent
       /\ data.total # -1
       /\ f.start_at + data.issues >= data.total

\* Whether the loop breaks after `data`, f being the state before the page.
loop_breaks(f, data) ==
    \/ data.issues = 0
    \/ data.issues < page_size
    \/ data.nextPageToken # Absent /\ ~truthy(data.nextPageToken)
    \/ /\ data.nextPageToken = Absent
       /\ data.total # -1
       /\ f.start_at + data.issues >= data.total

\* One iteration of `while True:` the hard cap check, the _search_issues call
\* (which returns `data` or raises) and what follows it.
fetch_all_assigned_iteration ==
    /\ fa.pc = "loop"
    /\ IF fa.all_issues >= MAX_ISSUES_HARD_CAP THEN
           fa' = [fa EXCEPT !.pc = "returned"]
       ELSE
           LET sent == [fa EXCEPT !.calls = Append(@, [start_at |-> fa.start_at,
                                                       next_token |-> fa.next_token])]
           IN  \/ fa' = [sent EXCEPT !.pc = "raised"]
               \/ \E data \in Pages(Len(fa.calls) + 1) :
                    LET got == [sent EXCEPT !.all_issues = @ + data.issues,
                                            !.pages = Append(@, data)]
                    IN  fa' = IF loop_breaks(fa, data)
                              THEN [got EXCEPT !.pc = "returned"]
                              ELSE next_page_state(got, data)
    /\ UNCHANGED <<settings, jc, rr, ss, fh, gate, tr, snap, db, qr, nz, ch, sy>>

(***************************************************************************)
(* jira_client.py: JiraClient.fetch_with_hierarchy                         *)
(***************************************************************************)
Keys == {"A", "B", "C"}

\* fields.get("parent"): a dict whose key may be missing (None).
NoParent == [key |-> None]
Ref(k) == [key |-> k]
Fields(parent, subtasks, issuelinks) ==
    [parent |-> parent, subtasks |-> subtasks, issuelinks |-> issuelinks]

\* The reference shapes of the records the model feeds in: no reference, one
\* reference in one of the four roles, and a record with all of them at once.
FieldShapes ==
    {Fields(NoParent, <<>>, <<>>)}
    \cup {Fields(Ref(k), <<>>, <<>>) : k \in Keys}
    \cup {Fields(NoParent, <<Ref(k)>>, <<>>) : k \in Keys}
    \cup {Fields(NoParent, <<>>, <<[inwardIssue |-> Ref(k)]>>) : k \in Keys}
    \cup {Fields(NoParent, <<>>, <<[outwardIssue |-> Ref(k)]>>) : k \in Keys}
    \cup {Fields(Ref("A"), <<Ref("B"), Ref("B")>>,
                 <<[inwardIssue |-> Ref("C")], [outwardIssue |-> Ref("A")]>>)}

RawIssues == [key : Keys, fields : FieldShapes]

\* The primary lists fetch_all_assigned can return: up to MaxPrimary records,
\* keys may repeat.
PrimaryLists == UNION {[1..n -> RawIssues] : n \in 0..MaxPrimary}

\* What fetch_issue(key) returns when it does not raise: the record of that
\* key, with references of its own.
ChasedShapes == {Fields(NoParent, <<>>, <<>>)} \cup {Fields(Ref(k), <<>>, <<>>) : k \in Keys}
ChasedIssues(key) == [key : {key}, fields : ChasedShapes]

\* for issue in assigned: issues_by_key[issue["key"]] = issue
RECURSIVE index_by_key(_, _)
index_by_key(assigned, by_key) ==
    IF assigned = <<>> THEN by_key
    ELSE LET issue == Head(assigned)
             rest == [k \in DOMAIN by_key \ {issue.key} |-> by_key[k]]
         IN  index_by_key(Tail(assigned), rest @@ (issue.key :> issue))

\* The keys one issue adds to extra_keys: parent, subtasks, both link ends,
\* each when present, truthy and not a key of issues_by_key.
LinkEnds(link) ==
    {link[d].key : d \in DOMAIN link \cap {"inwardIssue", "outwardIssue"}}

chase_keys_of_parent_and_subtasks(issue, known) ==
    LET f == issue.fields
    IN  ({f.parent.key} \cup {f.subtasks[i].key : i \in 1..Len(f.subtasks)})
        \ (known \cup {None, ""})

chase_keys_of_parent_and_links(issue, known) ==
    LET f == issue.fields
    IN  ({f.parent.key} \cup UNION {LinkEnds(f.issuelinks[i]) : i \in 1..Len(f.issuelinks)})
        \ (known \cup {None, ""})

chase_keys_of(issue, known) ==
    LET f == issue.fields
        parent == {f.parent.key}
        subtasks == {f.subtasks[i].key : i \in 1..Len(f.subtasks)}
        links == UNION {LinkEnds(f.issuelinks[i]) : i \in 1..Len(f.issuelinks)}
    IN  (parent \cup subtasks \cup links) \ (known \cup {None, ""})

\* The set extra_keys after the scan of `assigned`.
extra_keys(assigned, known) ==
    UNION {chase_keys_of(assigned[i], known) : i \in 1..Len(assigned)}

FhIdle ==
    [pc |-> "idle", primary |-> "pending", assigned |-> <<>>,
     issues_by_key |-> <<>>, extra_keys |-> {}, chased |-> <<>>]

\* fetch_with_hierarchy up to the chase loop: fetch_all_assigned raises or
\* returns the primary list; then the index and the scan.
fetch_with_hierarchy_call ==
    /\ fh.pc = "idle"
    /\ \/ fh' = [fh EXCEPT !.pc = "raised", !.primary = "raised"]
       \/ \E assigned \in PrimaryLists :
            LET by_key == index_by_key(assigned, <<>>)
                extra == extra_keys(assigned, DOMAIN by_key)
            IN  fh' = [fh EXCEPT !.pc = IF extra = {} THEN "returned" ELSE "chasing",
                                 !.primary = "ok", !.assigned = assigned,
                                 !.issues_by_key = by_key, !.extra_keys = extra]
    /\ UNCHANGED <<settings, jc, rr, ss, fa, gate, tr, snap, db, qr, nz, ch, sy>>

chase_failure_raises(f, key, ok, issue) ==
    LET left == f.extra_keys \ {key}
        called == [f EXCEPT !.extra_keys = left,
                            !.chased = Append(@, [key |-> key, ok |-> ok, issue |-> issue])]
    IN  IF ok
        THEN [called EXCEPT !.issues_by_key = [k \in DOMAIN @ \ {key} |-> @[k]] @@ (key :> issue),
                            !.pc = IF left = {} THEN "returned" ELSE "chasing"]
        ELSE [called EXCEPT !.pc = "raised"]

\* One pass of `for key in extra_keys`: fetch_issue(key) returns `issue` (ok)
\* or raises, which is logged and skipped.
chase_one(f, key, ok, issue) ==
    LET left == f.extra_keys \ {key}
        called == [f EXCEPT !.extra_keys = left,
                            !.chased = Append(@, [key |-> key, ok |-> ok, issue |-> issue]),
                            !.pc = IF left = {} THEN "returned" ELSE "chasing"]
    IN  IF ok
        THEN [called EXCEPT !.issues_by_key = [k \in DOMAIN @ \ {key} |-> @[k]] @@ (key :> issue)]
        ELSE called

\* The set is iterated in an order the code does not fix.
fetch_with_hierarchy_chase ==
    /\ fh.pc = "chasing"
    /\ \E key \in fh.extra_keys :
         \/ fh' = chase_one(fh, key, FALSE, [key |-> key, fields |-> Fields(NoParent, <<>>, <<>>)])
         \/ \E issue \in ChasedIssues(key) : fh' = chase_one(fh, key, TRUE, issue)
    /\ UNCHANGED <<settings, jc, rr, ss, fa, gate, tr, snap, db, qr, nz, ch, sy>>

(***************************************************************************)
(* api/routes_issues.py, api/routes_system.py: the routes that reach Jira  *)
(***************************************************************************)
\* _JIRA_SEMAPHORE = asyncio.Semaphore(3)
SemaphorePermits == 3
\* for attempt in range(3)
FetchAttempts == 3

Callers == 1..NumCallers

\* list_issues awaits its requests through httpx.AsyncClient inside
\* `async with _JIRA_SEMAPHORE`.  sync, focus_issue, search_issues and
\* list_assignees are `async def` handlers that call the blocking JiraClient:
\* they hold the event loop thread from their first request to their return.
AsyncRoutes == {"issues"}
BlockingRoutes == {"sync", "focus", "search", "assignees"}

CallerIdle == [route |-> None, pc |-> "idle", attempt |-> 0]

GateIdle ==
    [value |-> SemaphorePermits, waiters |-> <<>>, running |-> 0,
     callers |-> [c \in Callers |-> CallerIdle]]

\* The event loop runs one handler at a time; 0: no blocking handler holds it.
LoopFree == gate.running = 0

semaphore_release_keeps_permit(g) ==
    IF g.waiters = <<>> THEN g
    ELSE [g EXCEPT !.waiters = Tail(@),
                   !.callers[Head(g.waiters)].pc = "attempt"]

\* asyncio.Semaphore.release: the permit goes to the first waiter, if any.
semaphore_release(g) ==
    IF g.waiters = <<>> THEN [g EXCEPT !.value = @ + 1]
    ELSE [g EXCEPT !.waiters = Tail(@),
                   !.callers[Head(g.waiters)].pc = "attempt"]

\* list_issues down to `async with _JIRA_SEMAPHORE` (asyncio.Semaphore.acquire):
\* a permit is taken when one is free and nobody waits, else the caller queues.
fetch_page_acquire(c) ==
    /\ LoopFree
    /\ gate.callers[c].pc = "idle"
    /\ IF gate.value > 0 /\ gate.waiters = <<>>
       THEN gate' = [gate EXCEPT !.value = @ - 1,
                                 !.callers[c] = [route |-> "issues", pc |-> "attempt", attempt |-> 0]]
       ELSE gate' = [gate EXCEPT !.waiters = Append(@, c),
                                 !.callers[c] = [route |-> "issues", pc |-> "waiting", attempt |-> 0]]
    /\ UNCHANGED <<settings, jc, rr, ss, fa, fh, tr, snap, db, qr, nz, ch, sy>>

\* await client.post(...): the request leaves, the coroutine is suspended.
fetch_page_send(c) ==
    /\ LoopFree
    /\ gate.callers[c].pc = "attempt"
    /\ gate' = [gate EXCEPT !.callers[c].pc = "in_flight"]
    /\ UNCHANGED <<settings, jc, rr, ss, fa, fh, tr, snap, db, qr, nz, ch, sy>>

\* What a request of fetch_page ends with: a response to return, a 429 or
\* 5xx response (sleep, `continue`), or an exception (any other status
\* through raise_for_status, or a transport failure).
FetchAnswers == {"ok", "retry_status", "exception"}

\* Jira answers (or the connection fails): nothing of the process runs yet.
fetch_page_answer(c) ==
    /\ gate.callers[c].pc = "in_flight"
    /\ \E o \in FetchAnswers :
         gate' = [gate EXCEPT !.callers[c].pc = o]
    /\ UNCHANGED <<settings, jc, rr, ss, fa, fh, tr, snap, db, qr, nz, ch, sy>>

\* The coroutine resumes: return resp.json(); or, on a 429 or 5xx, sleep and
\* `continue` (on the last attempt too); or the except clause, which re-raises
\* on the last attempt and sleeps before.  Leaving the `async with` block by
\* return or by exception releases the permit.
fetch_page_resume(c) ==
    /\ LoopFree
    /\ gate.callers[c].pc \in FetchAnswers
    /\ LET me == gate.callers[c]
       IN  IF me.pc = "ok" \/ (me.pc = "exception" /\ me.attempt = FetchAttempts - 1)
           THEN gate' = semaphore_release([gate EXCEPT !.callers[c] = CallerIdle])
           ELSE gate' = [gate EXCEPT !.callers[c].pc = "sleeping"]
    /\ UNCHANGED <<settings, jc, rr, ss, fa, fh, tr, snap, db, qr, nz, ch, sy>>

\* asyncio.sleep(...) is over: the next iteration of the for loop, or, after
\* the last one, the end of the loop, which leaves the `async with` block
\* (fetch_page returns None) and releases the permit.
fetch_page_wake(c) ==
    /\ LoopFree
    /\ gate.callers[c].pc = "sleeping"
    /\ IF gate.callers[c].attempt = FetchAttempts - 1
       THEN gate' = semaphore_release([gate EXCEPT !.callers[c] = CallerIdle])
       ELSE gate' = [gate EXCEPT !.callers[c].pc = "attempt", !.callers[c].attempt = @ + 1]
    /\ UNCHANGED <<settings, jc, rr, ss, fa, fh, tr, snap, db, qr, nz, ch, sy>>

\* A handler of a blocking route starts and sends its first request through
\* JiraClient: no permit is asked for.
blocking_handler_start(c) ==
    /\ LoopFree
    /\ gate.callers[c].pc = "idle"
    /\ \E r \in BlockingRoutes :
         gate' = [gate EXCEPT !.running = c,
                              !.callers[c] = [route |-> r, pc |-> "blocking_in_flight", attempt |-> 0]]
    /\ UNCHANGED <<settings, jc, rr, ss, fa, fh, tr, snap, db, qr, nz, ch, sy>>

\* The blocking request ends; the handler sends another one or returns.
blocking_handler_step(c) ==
    /\ gate.running = c
    /\ \/ /\ gate.callers[c].pc = "blocking_in_flight"
          /\ gate' = [gate EXCEPT !.callers[c].pc = "blocking_between"]
       \/ /\ gate.callers[c].pc = "blocking_between"
          /\ gate' = [gate EXCEPT !.callers[c].pc = "blocking_in_flight"]
       \/ /\ gate.callers[c].pc = "blocking_between"
          /\ gate' = [gate EXCEPT !.running = 0, !.callers[c] = CallerIdle]
    /\ UNCHANGED <<settings, jc, rr, ss, fa, fh, tr, snap, db, qr, nz, ch, sy>>


(***************************************************************************)
(* tree.py: build_tree, _sort_children, flatten_tree                       *)
(***************************************************************************)
\* An issue key is a string, kept as its characters: list.sort compares keys
\* as strings, so "10" sorts before "2".
TreeKeys == {<<"1">>, <<"2">>, <<"1", "0">>}
\* A key no record of the dataset has.
AbsentKey == <<"9">>
\* parent.get("key") of a record without parent: None.  None and "" take the
\* same branch of `if parent_key`.
NoParentKey == <<>>
ParentKeys == {NoParentKey, AbsentKey} \cup TreeKeys

\* A normalized issue, by the two fields build_tree reads.
TreeRecords == [key : TreeKeys, parent : ParentKeys]

\* Python's str < str on keys: lexicographic by character.
RECURSIVE str_lt(_, _)
str_lt(a, b) ==
    IF a = <<>> THEN b # <<>>
    ELSE IF b = <<>> THEN FALSE
    ELSE IF a[1] = b[1] THEN str_lt(Tail(a), Tail(b))
    ELSE DigitValue(a[1]) < DigitValue(b[1])

\* The lists the model gives to build_tree.
RECURSIVE ListsUpTo(_, _)
ListsUpTo(S, n) ==
    IF n = 0 THEN {<<>>}
    ELSE LET shorter == ListsUpTo(S, n - 1)
         IN  shorter \cup {Append(q, x) : q \in {r \in shorter : Len(r) = n - 1}, x \in S}

\* The first loop of build_tree: by_key, a dict.  `order` is the order of
\* by_key.values(): a key keeps the place of its first insertion, `node` the
\* record of its last one.
RECURSIVE index_issues(_)
index_issues(issues) ==
    IF issues = <<>> THEN [order |-> <<>>, node |-> <<>>]
    ELSE LET rest == index_issues(SubSeq(issues, 1, Len(issues) - 1))
             issue == issues[Len(issues)]
         IN  [order |-> IF issue.key \in DOMAIN rest.node THEN rest.order
                        ELSE Append(rest.order, issue.key),
              node |-> (issue.key :> issue) @@ rest.node]

place_node_also_as_root(by_key, placed, key) ==
    LET parent_key == by_key.node[key].parent
    IN  IF parent_key # NoParentKey /\ parent_key \in DOMAIN by_key.node
        THEN [placed EXCEPT !.children[parent_key] = Append(@, key),
                            !.roots = Append(@, key)]
        ELSE [placed EXCEPT !.roots = Append(@, key),
                            !.orphan_count = IF parent_key # NoParentKey THEN @ + 1 ELSE @]

place_node_orphans_uncounted(by_key, placed, key) ==
    LET parent_key == by_key.node[key].parent
    IN  IF parent_key # NoParentKey /\ parent_key \in DOMAIN by_key.node
        THEN [placed EXCEPT !.children[parent_key] = Append(@, key)]
        ELSE [placed EXCEPT !.roots = Append(@, key)]

\* One iteration of the second loop of build_tree: the node goes under its
\* parent when the parent key is in by_key, else among the roots.
place_node(by_key, placed, key) ==
    LET parent_key == by_key.node[key].parent
    IN  IF parent_key # NoParentKey /\ parent_key \in DOMAIN by_key.node
        THEN [placed EXCEPT !.children[parent_key] = Append(@, key)]
        ELSE [placed EXCEPT !.roots = Append(@, key),
                            !.orphan_count = IF parent_key # NoParentKey THEN @ + 1 ELSE @]

\* The second loop of build_tree over the first n values of by_key.
RECURSIVE place_nodes(_, _)
place_nodes(by_key, n) ==
    IF n = 0
    THEN [roots |-> <<>>, children |-> [k \in DOMAIN by_key.node |-> <<>>], orphan_count |-> 0]
    ELSE place_node(by_key, place_nodes(by_key, n - 1), by_key.order[n])

\* Insertion of one key into a list sorted by key (after its equals: list.sort
\* is stable).
RECURSIVE insert_by_key(_, _)
insert_by_key(sorted, k) ==
    IF sorted = <<>> THEN <<k>>
    ELSE IF str_lt(k, sorted[1]) THEN <<k>> \o sorted
    ELSE <<sorted[1]>> \o insert_by_key(Tail(sorted), k)

RECURSIVE insertion_sort(_)
insertion_sort(nodes) ==
    IF nodes = <<>> THEN <<>>
    ELSE insert_by_key(insertion_sort(SubSeq(nodes, 1, Len(nodes) - 1)), nodes[Len(nodes)])

sort_by_key_left_as_is(nodes) == nodes

\* list.sort(key=lambda n: n.get("key", ""))
sort_by_key(nodes) == insertion_sort(nodes)

\* The nodes _sort_children visits, and the ones the returned list holds:
\* those reached from the roots through children.
RECURSIVE reached_from(_, _)
reached_from(children, nodes) ==
    LET more == nodes \cup UNION {{children[k][i] : i \in 1..Len(children[k])} : k \in nodes}
    IN  IF more = nodes THEN nodes ELSE reached_from(children, more)

sort_children_skipped(placed) ==
    LET reached == reached_from(placed.children, {placed.roots[i] : i \in 1..Len(placed.roots)})
    IN  [k \in reached |-> placed.children[k]]

\* _sort_children(roots): the children list of every node under the roots.
sort_children(placed) ==
    LET reached == reached_from(placed.children, {placed.roots[i] : i \in 1..Len(placed.roots)})
    IN  [k \in reached |-> sort_by_key(placed.children[k])]

\* build_tree: the list `roots` it returns, as the keys of the root nodes,
\* the children list of every node in it, and the fields of every node in
\* it; with the orphan count it logs.
build_tree(issues) ==
    LET by_key == index_issues(issues)
        placed == place_nodes(by_key, Len(by_key.order))
        children == sort_children(placed)
    IN  [roots |-> sort_by_key(placed.roots),
         children |-> children,
         node |-> [k \in DOMAIN children |-> by_key.node[k]],
         orphan_count |-> placed.orphan_count]

\* flatten_tree(tree, depth), for the node list `nodes` of forest t.
RECURSIVE flatten_tree(_, _, _)
flatten_tree(t, nodes, depth) ==
    IF nodes = <<>> THEN <<>>
    ELSE <<[key |-> nodes[1], parent |-> t.node[nodes[1]].parent, _depth |-> depth]>>
         \o flatten_tree(t, t.children[nodes[1]], depth + 1)
         \o flatten_tree(t, Tail(nodes), depth)

NoTree == [roots |-> <<>>, children |-> <<>>, node |-> <<>>, orphan_count |-> 0]
TrIdle == [pc |-> "idle", issues |-> <<>>, tree |-> NoTree, flat |-> <<>>]

\* tree = build_tree(issues)
build_tree_call ==
    /\ tr.pc = "idle"
    /\ tr' = [tr EXCEPT !.pc = "built", !.tree = build_tree(tr.issues)]
    /\ UNCHANGED <<settings, jc, rr, ss, fa, fh, gate, snap, db, qr, nz, ch, sy>>

\* flat = flatten_tree(tree)
flatten_tree_call ==
    /\ tr.pc = "built"
    /\ tr' = [tr EXCEPT !.pc = "flat", !.flat = flatten_tree(tr.tree, tr.tree.roots, 0)]
    /\ UNCHANGED <<settings, jc, rr, ss, fa, fh, gate, snap, db, qr, nz, ch, sy>>

(***************************************************************************)
(* storage.py: save_snapshot, load_latest_issues, load_latest_tree;        *)
(* api/routes_issues.py: get_tree; the sync command and the sync route     *)
(***************************************************************************)
\* The record lists a sync of the model stores.
SyncLists ==
    {<<>>,
     <<[key |-> <<"1">>, parent |-> NoParentKey]>>,
     <<[key |-> <<"2">>, parent |-> <<"1">>], [key |-> <<"1">>, parent |-> NoParentKey]>>}

\* json.dumps(tree): the nested nodes; the orphan count is not part of it.
forest_of(t) == [roots |-> t.roots, children |-> t.children, node |-> t.node]

\* A file that does not exist, and one with the given content.
NoFile == [exists |-> FALSE, content |-> <<>>]
File(content) == [exists |-> TRUE, content |-> content]

\* `taskforge sync` (cli/main.py) and POST /sync (api/routes_system.py) are
\* the callers of save_snapshot: two processes over the same directories.
Syncers == {"cli", "api"}

SyncIdle == [pc |-> "idle", issues |-> <<>>, stamp |-> 0]

SnapIdle ==
    [clock |-> 0,                           \* the UTC time, in minutes
     archive |-> <<>>,                      \* data/snapshots: file name -> content
     tasks |-> NoFile,                      \* out/tasks.json
     tasks_tree |-> NoFile,                 \* out/tasks_tree.json
     issues_last |-> NoFile,                \* _TTL_CACHE["issues_last"]
     saved |-> <<>>,                        \* the save_snapshot calls so far
     sync |-> [p \in Syncers |-> SyncIdle],
     get_tree |-> [pc |-> "idle", tree |-> <<>>]]

\* load_latest_issues
load_latest_issues(sn) == IF sn.tasks.exists THEN sn.tasks.content ELSE <<>>

\* load_latest_tree
load_latest_tree(sn) ==
    IF sn.tasks_tree.exists THEN sn.tasks_tree.content ELSE forest_of(build_tree(<<>>))

\* A minute passes.
clock_tick ==
    /\ snap.clock < MaxSyncs
    /\ snap' = [snap EXCEPT !.clock = @ + 1]
    /\ UNCHANGED <<settings, jc, rr, ss, fa, fh, gate, tr, db, qr, nz, ch, sy>>

\* The event loop of the API process runs one handler at a time, and neither
\* sync nor get_tree awaits anything.
ApiLoopFree(p) ==
    p = "api" => (snap.get_tree.pc = "idle" /\ snap.sync["api"].pc = "idle")

\* save_snapshot, lines 31-37: the stamp is the time to the minute, the
\* archive file is named after it and written with write_text, which
\* replaces a file of that name.
save_snapshot_archive(p) ==
    /\ snap.sync[p].pc = "idle"
    /\ ApiLoopFree(p)
    /\ Len(snap.saved) < MaxSyncs
    /\ \E issues \in SyncLists :
         LET stamp == snap.clock
         IN  snap' = [snap EXCEPT
                 !.archive = (stamp :> issues) @@ @,
                 !.saved = Append(@, [by |-> p, stamp |-> stamp, issues |-> issues]),
                 !.sync[p] = [pc |-> "archived", issues |-> issues, stamp |-> stamp]]
    /\ UNCHANGED <<settings, jc, rr, ss, fa, fh, gate, tr, db, qr, nz, ch, sy>>

\* save_snapshot, lines 41-42: out/tasks.json
save_snapshot_tasks(p) ==
    /\ snap.sync[p].pc = "archived"
    /\ snap' = [snap EXCEPT !.tasks = File(snap.sync[p].issues),
                            !.sync[p].pc = "tasks_written"]
    /\ UNCHANGED <<settings, jc, rr, ss, fa, fh, gate, tr, db, qr, nz, ch, sy>>

\* save_snapshot, lines 45-49: out/tasks_tree.json, with the tree the caller
\* built from the same issues; the call returns.
save_snapshot_tree(p) ==
    /\ snap.sync[p].pc = "tasks_written"
    /\ snap' = [snap EXCEPT !.tasks_tree = File(forest_of(build_tree(snap.sync[p].issues))),
                            !.sync[p] = SyncIdle]
    /\ UNCHANGED <<settings, jc, rr, ss, fa, fh, gate, tr, db, qr, nz, ch, sy>>

\* list_issues: _set_cache("issues_last", issues), the records of the page of
\* the listing it has just fetched.
list_issues_set_cache ==
    /\ ApiLoopFree("api")
    /\ \E issues \in SyncLists : snap' = [snap EXCEPT !.issues_last = File(issues)]
    /\ UNCHANGED <<settings, jc, rr, ss, fa, fh, gate, tr, db, qr, nz, ch, sy>>

\* _get_cache("issues_last", ttl=300) after 300 seconds: the entry is gone.
issues_last_expires ==
    /\ snap.issues_last.exists
    /\ snap' = [snap EXCEPT !.issues_last = NoFile]
    /\ UNCHANGED <<settings, jc, rr, ss, fa, fh, gate, tr, db, qr, nz, ch, sy>>

\* _get_cache("issues_last", ttl=300) or load_latest_issues()
issues_for_tree(sn) ==
    IF sn.issues_last.exists /\ sn.issues_last.content # <<>>
    THEN sn.issues_last.content
    ELSE load_latest_issues(sn)

\* get_tree, lines 231-235: the stored tree, or, when it is empty, the tree
\* of the cached listing or of tasks.json.
get_tree_load ==
    /\ ApiLoopFree("api")
    /\ LET tree == load_latest_tree(snap)
       IN  IF tree.roots = <<>> /\ issues_for_tree(snap) # <<>>
           THEN snap' = [snap EXCEPT !.get_tree = [pc |-> "write",
                                                   tree |-> forest_of(build_tree(issues_for_tree(snap)))]]
           ELSE snap' = [snap EXCEPT !.get_tree = [pc |-> "return", tree |-> tree]]
    /\ UNCHANGED <<settings, jc, rr, ss, fa, fh, gate, tr, db, qr, nz, ch, sy>>

\* get_tree, lines 237-240: the rebuilt tree is written to tasks_tree.json;
\* the handler returns.
get_tree_return ==
    /\ snap.get_tree.pc \in {"write", "return"}
    /\ snap' = [snap EXCEPT !.tasks_tree = IF snap.get_tree.pc = "write"
                                           THEN File(snap.get_tree.tree) ELSE @,
                            !.get_tree = [pc |-> "idle", tree |-> <<>>]]
    /\ UNCHANGED <<settings, jc, rr, ss, fa, fh, gate, tr, db, qr, nz, ch, sy>>

(***************************************************************************)
(* storage.py: SQLiteStore                                                 *)
(***************************************************************************)
\* def get_snapshots(self, limit: int = 20)
get_snapshots_limit == 20

\* Normalized issues, by the fields record_sync reads.
HistoryKeys == {"A", "B"}
HistoryRecords ==
    {[key |-> "A", status |-> "Open", priority |-> "High", assignee |-> "alice", summary |-> "s1"],
     [key |-> "A", status |-> "Done", priority |-> "Low", assignee |-> None, summary |-> "s2"],
     [key |-> "B", status |-> "Open", priority |-> "High", assignee |-> "bob", summary |-> "s3"]}

\* The record lists a sync of the model records: none, one record, two keys,
\* one key twice.
HistoryLists ==
    {<<>>} \cup {<<r>> : r \in {h \in HistoryRecords : h.status = "Open"}}
    \cup {<<a, b>> : a \in {h \in HistoryRecords : h.status = "Done"},
                     b \in {h \in HistoryRecords : h.key # "B" \/ h.status = "Open"}}

\* What datetime.now(timezone.utc) reads at a call: the wall clock, which
\* can be set back between two calls.
ClockReadings == {1, 2, 3}
LatestReading == CHOOSE t \in ClockReadings : \A u \in ClockReadings : u <= t

\* The database after SCHEMA_SQL: three empty tables.  `calls` is not a
\* table: the record_sync calls made so far.
DbIdle == [snapshots |-> <<>>, issues |-> <<>>, issue_snapshots |-> <<>>, calls |-> <<>>]

record_issue_resets_first_seen(d, issue, snapshot_id, now) ==
    [d EXCEPT
        !.issues = (issue.key :> [raw_json |-> issue, first_seen |-> now, last_seen |-> now]) @@ @,
        !.issue_snapshots =
            Append(@, [id |-> Len(@) + 1, snapshot_id |-> snapshot_id, issue_key |-> issue.key,
                       status |-> issue.status, priority |-> issue.priority,
                       assignee |-> issue.assignee, summary |-> issue.summary])]

\* One iteration of the loop of record_sync: the upsert into issues (on
\* conflict raw_json and last_seen are replaced, first_seen is kept) and the
\* insert into issue_snapshots.
record_issue(d, issue, snapshot_id, now) ==
    [d EXCEPT
        !.issues =
            IF issue.key \in DOMAIN @
            THEN [@ EXCEPT ![issue.key].raw_json = issue, ![issue.key].last_seen = now]
            ELSE (issue.key :> [raw_json |-> issue, first_seen |-> now, last_seen |-> now]) @@ @,
        !.issue_snapshots =
            Append(@, [id |-> Len(@) + 1, snapshot_id |-> snapshot_id, issue_key |-> issue.key,
                       status |-> issue.status, priority |-> issue.priority,
                       assignee |-> issue.assignee, summary |-> issue.summary])]

\* The loop of record_sync over the first n issues.
RECURSIVE record_issues(_, _, _, _, _)
record_issues(d, issues, n, snapshot_id, now) ==
    IF n = 0 THEN d
    ELSE record_issue(record_issues(d, issues, n - 1, snapshot_id, now),
                      issues[n], snapshot_id, now)

\* SQLiteStore.record_sync: the snapshots row (AUTOINCREMENT id), then the
\* loop, then the commit.
record_sync(d, issues, now) ==
    LET snapshot_id == Len(d.snapshots) + 1
        inserted == [d EXCEPT
                        !.snapshots = Append(@, [id |-> snapshot_id, timestamp |-> now,
                                                 path |-> snapshot_id]),
                        !.calls = Append(@, [issues |-> issues, now |-> now])]
    IN  record_issues(inserted, issues, Len(issues), snapshot_id, now)

Min(a, b) == IF a < b THEN a ELSE b

\* SQLiteStore.get_snapshots: ORDER BY id DESC LIMIT ?
get_snapshots(d, limit) ==
    [i \in 1..Min(limit, Len(d.snapshots)) |->
        d.snapshots[Len(d.snapshots) - i + 1]]

\* One row of the join of get_issue_history, as the dict it is returned as.
history_entry(d, row) ==
    [timestamp |-> d.snapshots[row.snapshot_id].timestamp, status |-> row.status,
     priority |-> row.priority, assignee |-> row.assignee, summary |-> row.summary]

\* ORDER BY s.timestamp over the rows with the given ids: every order in
\* which timestamps do not decrease (SQL leaves the order of rows with the
\* same timestamp open).
RECURSIVE ordered_by_timestamp(_, _)
ordered_by_timestamp(d, ids) ==
    IF ids = {} THEN {<<>>}
    ELSE LET ts(i) == d.snapshots[d.issue_snapshots[i].snapshot_id].timestamp
             first == {i \in ids : \A j \in ids : ts(i) <= ts(j)}
         IN  UNION {{<<history_entry(d, d.issue_snapshots[i])>> \o rest :
                        rest \in ordered_by_timestamp(d, ids \ {i})} : i \in first}

\* SQLiteStore.get_issue_history: the lists the query can return.
get_issue_history(d, key) ==
    ordered_by_timestamp(d, {i \in 1..Len(d.issue_snapshots) : d.issue_snapshots[i].issue_key = key})

\* with SQLiteStore() as store: store.record_sync(issues, snap_path)
record_sync_call ==
    /\ Len(db.calls) < MaxRecordSyncs
    /\ \E issues \in HistoryLists, now \in ClockReadings :
         /\ Len(db.calls) >= MaxVariedSyncs => (issues = <<>> /\ now = LatestReading)
         /\ db' = record_sync(db, issues, now)
    /\ UNCHANGED <<settings, jc, rr, ss, fa, fh, gate, tr, snap, qr, nz, ch, sy>>


(***************************************************************************)
(* queries.py: find_blocked, rank_next.  Strings the code lower-cases,     *)
(* strips, splits or searches are sequences of characters.                 *)
(***************************************************************************)
\* A string value, and Python's None where a string may stand.
Str(chars) == [null |-> FALSE, chars |-> chars]
Null == [null |-> TRUE, chars |-> <<>>]

\* `value or ""`.
or_empty(v) == IF v.null THEN <<>> ELSE v.chars

UpperCase == <<"B", "C", "D", "E", "K", "L", "N", "O", "P", "S">>
LowerCase == <<"b", "c", "d", "e", "k", "l", "n", "o", "p", "s">>

\* str.lower(), character by character.
lower_char(c) ==
    IF \E i \in 1..Len(UpperCase) : UpperCase[i] = c
    THEN LowerCase[CHOOSE i \in 1..Len(UpperCase) : UpperCase[i] = c]
    ELSE c

lower(s) == [i \in 1..Len(s) |-> lower_char(s[i])]

\* str.strip(): the string without its leading and trailing blanks.
strip(s) ==
    LET inked == {i \in 1..Len(s) : s[i] # " "}
    IN  IF inked = {} THEN <<>>
        ELSE SubSeq(s, CHOOSE i \in inked : \A j \in inked : i <= j,
                       CHOOSE i \in inked : \A j \in inked : j <= i)

\* str.split(","): the pieces between the commas, empty ones included.
RECURSIVE split_comma(_)
split_comma(s) ==
    IF \A i \in 1..Len(s) : s[i] # ","
    THEN <<s>>
    ELSE LET c == CHOOSE i \in 1..Len(s) : s[i] = "," /\ \A j \in 1..(i - 1) : s[j] # ","
         IN  <<SubSeq(s, 1, c - 1)>> \o split_comma(SubSeq(s, c + 1, Len(s)))

\* `sub in s` for strings.
contains(s, sub) ==
    \E i \in 0..(Len(s) - Len(sub)) : SubSeq(s, i + 1, i + Len(sub)) = sub

\* Settings.blocked_keywords:
\* [k.strip().lower() for k in self.blocked_link_keywords.split(",") if k.strip()]
RECURSIVE stripped_lowered(_)
stripped_lowered(pieces) ==
    IF pieces = <<>> THEN <<>>
    ELSE (IF strip(Head(pieces)) # <<>> THEN <<lower(strip(Head(pieces)))>> ELSE <<>>)
         \o stripped_lowered(Tail(pieces))

\* blocked_keywords without the lower(): the keywords as they were typed.
blocked_keywords_as_typed(s) ==
    LET pieces == split_comma(s.blocked_link_keywords)
    IN  SelectSeq([i \in 1..Len(pieces) |-> strip(pieces[i])], LAMBDA k : k # <<>>)

blocked_keywords(s) == stripped_lowered(split_comma(s.blocked_link_keywords))

\* The two keyword settings of the model: "Block,dep" in the style of the
\* default "is blocked by,Blocked,depends on", and one with blanks around
\* the commas and an empty piece.
QuerySettings ==
    [blocked_link_keywords : {<<"B", "l", "o", "c", "k", ",", "d", "e", "p">>,
                              <<" ", "B", "L", "O", "C", "K", " ", ",", " ", ",">>},
     blocked_flag_field : {None, "flagged"}]

\* Link relations: two that hold "block" in some letter case, one that holds
\* "dep", one that holds neither, and a link without relation.
Relations ==
    {Str(<<"b", "l", "o", "c", "k", "s">>), Str(<<"i", "s", " ", "B", "l", "o", "c", "k", "e", "d">>),
     Str(<<"D", "e", "p", "s">>), Str(<<"c", "l", "o", "n", "e", "s">>), Null}

\* One normalized link: find_blocked reads its relation and copies the rest.
Link(relation) == [relation |-> relation]

\* A due date or update time: none, a string fromisoformat rejects, or an
\* instant, in hours from the first clock reading.
NoDate == [parse |-> "none", hours |-> 0]
BadDate == [parse |-> "ValueError", hours |-> 0]
At(h) == [parse |-> "ok", hours |-> h]

\* The record the ranking varies: Jira's "To Do" category, no priority, no
\* dates, no links, not flagged.
BaseIssue ==
    [key |-> "A", links |-> <<>>, flagged |-> FALSE,
     statusCategory |-> Str(<<"n", "e", "w">>), priority |-> None,
     dueDate |-> NoDate, updated |-> NoDate]

\* blockers_of without (link.get("relation") or "").lower().
blockers_of_case_sensitive(issue, keywords, flag_field) ==
    LET matching == SelectSeq(issue.links,
                        LAMBDA link : \E i \in 1..Len(keywords) :
                                         contains(or_empty(link.relation), keywords[i]))
        by_links == [i \in 1..Len(matching) |-> [kind |-> "link", relation |-> matching[i].relation]]
    IN  by_links \o (IF flag_field # None /\ issue.flagged
                     THEN <<[kind |-> "flagged", relation |-> Str(<<"f", "l", "a", "g", "g", "e", "d">>)]>>
                     ELSE <<>>)

\* find_blocked's loop body for one issue: the blockers it collects.
blockers_of(issue, keywords, flag_field) ==
    LET matching == SelectSeq(issue.links,
                        LAMBDA link : \E i \in 1..Len(keywords) :
                                         contains(lower(or_empty(link.relation)), keywords[i]))
        by_links == [i \in 1..Len(matching) |-> [kind |-> "link", relation |-> matching[i].relation]]
    IN  by_links \o (IF flag_field # None /\ issue.flagged
                     THEN <<[kind |-> "flagged", relation |-> Str(<<"f", "l", "a", "g", "g", "e", "d">>)]>>
                     ELSE <<>>)

RECURSIVE find_blocked_loop(_, _, _)
find_blocked_loop(issues, keywords, flag_field) ==
    IF issues = <<>> THEN <<>>
    ELSE LET blockers == blockers_of(Head(issues), keywords, flag_field)
         IN  (IF blockers # <<>> THEN <<[issue |-> Head(issues), blockers |-> blockers]>> ELSE <<>>)
             \o find_blocked_loop(Tail(issues), keywords, flag_field)

find_blocked(issues, s) == find_blocked_loop(issues, blocked_keywords(s), s.blocked_flag_field)

\* The records find_blocked is given: every choice of links and flag.
LinkLists ==
    {<<>>} \cup {<<Link(r)>> : r \in Relations}
           \cup {<<Link(Str(<<"c", "l", "o", "n", "e", "s">>)), Link(r)>> :
                    r \in {Str(<<"i", "s", " ", "B", "l", "o", "c", "k", "e", "d">>)}}

BlockedRecords ==
    {[BaseIssue EXCEPT !.links = l, !.flagged = f] : l \in LinkLists, f \in BOOLEAN}

QrIdle ==
    [pc |-> "idle", settings |-> [blocked_link_keywords |-> <<>>, blocked_flag_field |-> None],
     issues |-> <<>>, top |-> 0, blocked |-> <<>>, ranked |-> <<>>]

\* blocked = find_blocked(issues)
find_blocked_call ==
    /\ qr.pc = "idle"
    /\ qr' = [qr EXCEPT !.pc = "blocked", !.blocked = find_blocked(qr.issues, qr.settings)]
    /\ UNCHANGED <<settings, jc, rr, ss, fa, fh, gate, tr, snap, db, nz, ch, sy>>

\* PRIORITY_SCORES.get(priority, 30)
PRIORITY_SCORES(priority) ==
    CASE priority = "Highest" -> 100
      [] priority = "High" -> 75
      [] priority = "Medium" -> 50
      [] priority = "Low" -> 25
      [] priority = "Lowest" -> 10
      [] priority = None -> 30
      [] OTHER -> 30

_DONE_CATEGORIES_LOWER ==
    {<<"d", "o", "n", "e">>, <<"c", "o", "m", "p", "l", "e", "t", "e">>, <<"c", "l", "o", "s", "e", "d">>}

\* _is_done_category without .lower().
_is_done_category_case_sensitive(cat) ==
    IF cat.null \/ cat.chars = <<>> THEN FALSE
    ELSE strip(cat.chars) \in _DONE_CATEGORIES_LOWER

\* `if not cat: return False`, then cat.strip().lower() in the set.
_is_done_category(cat) ==
    IF cat.null \/ cat.chars = <<>> THEN FALSE
    ELSE lower(strip(cat.chars)) \in _DONE_CATEGORIES_LOWER

\* _due_date_score, `now` being what datetime.now(timezone.utc) returns;
\* days_left < n is (due - now) < 24 n hours.
_due_date_score(due, now) ==
    IF due.parse # "ok" THEN 0
    ELSE LET hours_left == due.hours - now
         IN  CASE hours_left < 0 -> 80
               [] hours_left >= 0 /\ hours_left < 24 -> 60
               [] hours_left >= 24 /\ hours_left < 72 -> 40
               [] hours_left >= 72 /\ hours_left < 168 -> 20
               [] OTHER -> 5

\* _recency_score, `now` being what datetime.now(timezone.utc) returns.
_recency_score(updated, now) ==
    IF updated.parse # "ok" THEN 0
    ELSE LET hours_ago == now - updated.hours
         IN  CASE hours_ago < 4 -> 15
               [] hours_ago >= 4 /\ hours_ago < 24 -> 10
               [] hours_ago >= 24 /\ hours_ago < 72 -> 5
               [] OTHER -> 0

\* blocked_keys = {r["issue"]["key"] for r in find_blocked(issues, s)}
blocked_keys(issues, s) ==
    LET found == find_blocked(issues, s)
    IN  {found[i].issue.key : i \in 1..Len(found)}

\* b_penalty from the record's own links and flag instead of its key.
b_penalty_by_record(issue, issues, s) ==
    IF find_blocked(<<issue>>, s) # <<>> THEN -50 ELSE 0

\* b_penalty = -50.0 if issue.get("key") in blocked_keys else 0.0
b_penalty(issue, issues, s) ==
    IF issue.key \in blocked_keys(issues, s) THEN -50 ELSE 0

\* The entry rank_next appends for one record that is not done.
rank_entry(issue, issues, s, now) ==
    LET p_score == PRIORITY_SCORES(issue.priority)
        d_score == _due_date_score(issue.dueDate, now)
        r_score == _recency_score(issue.updated, now)
        penalty == b_penalty(issue, issues, s)
    IN  [issue |-> issue,
         score |-> p_score + d_score + r_score + penalty,
         breakdown |-> [priority |-> p_score, due_date |-> d_score,
                        recency |-> r_score, blocked_penalty |-> penalty]]

\* list.sort(key=score, reverse=True) is stable: an entry goes behind the
\* entries before it whose score is not lower.
RECURSIVE insert_by_score(_, _)
insert_by_score(sorted, r) ==
    IF sorted = <<>> THEN <<r>>
    ELSE IF Head(sorted).score >= r.score
         THEN <<Head(sorted)>> \o insert_by_score(Tail(sorted), r)
         ELSE <<r>> \o sorted

RECURSIVE sort_by_score(_)
sort_by_score(results) ==
    IF results = <<>> THEN <<>>
    ELSE insert_by_score(sort_by_score(SubSeq(results, 1, Len(results) - 1)),
                         results[Len(results)])

\* results[:top]: a negative top counts from the end of the list.
slice_to(results, top) ==
    IF top >= 0
    THEN SubSeq(results, 1, IF top < Len(results) THEN top ELSE Len(results))
    ELSE SubSeq(results, 1, IF Len(results) + top > 0 THEN Len(results) + top ELSE 0)

rank_next(issues, top, s, now) ==
    LET open == SelectSeq(issues, LAMBDA issue : ~_is_done_category(issue.statusCategory))
        results == [i \in 1..Len(open) |-> rank_entry(open[i], issues, s, now)]
    IN  slice_to(sort_by_score(results), top)

\* What datetime.now() returns at a call, in hours.
RankClockReadings == {0, 30}

\* --top / ?top=: the CLI option is any integer, the API's is 1..50.
Tops == {-1, 0, 1, 2}

\* statusCategory values: Jira's done category in several spellings, other
\* done words, one padded with blanks, none, empty, and an open category.
StatusCategories ==
    {Str(<<"D", "o", "n", "e">>), Str(<<"D", "O", "N", "E">>), Str(<<"c", "l", "o", "s", "e", "d">>),
     Str(<<"C", "o", "m", "p", "l", "e", "t", "e">>), Str(<<" ", "D", "o", "n", "e", " ">>),
     Str(<<"d", "o", "n", "e", "!">>), Str(<<>>), Null, BaseIssue.statusCategory}

BlockingLink == Link(Str(<<"i", "s", " ", "B", "l", "o", "c", "k", "e", "d">>))

\* Records for lists of one: every choice of priority, due date, update
\* time and blocking link, and every status category.
SingleRecords ==
    {[BaseIssue EXCEPT !.priority = p, !.dueDate = d, !.updated = u, !.links = l] :
        p \in {"Highest", "High", "Medium", "Low", "Lowest", None, "Critical"},
        d \in {NoDate, BadDate, At(-5), At(10), At(50), At(100), At(200)},
        u \in {NoDate, BadDate, At(-2), At(-20), At(-60), At(-100)},
        l \in {<<>>, <<BlockingLink>>}}
    \cup {[BaseIssue EXCEPT !.statusCategory = c] : c \in StatusCategories}

\* Records for longer lists: equal and different scores, the two keys,
\* open and done, blocked and not, a score that depends on the clock.
ListRecords ==
    {BaseIssue,
     [BaseIssue EXCEPT !.key = "B"],
     [BaseIssue EXCEPT !.priority = "High"],
     [BaseIssue EXCEPT !.links = <<BlockingLink>>],
     [BaseIssue EXCEPT !.key = "B", !.links = <<BlockingLink>>,
                       !.statusCategory = Str(<<"D", "o", "n", "e">>)],
     [BaseIssue EXCEPT !.statusCategory = Str(<<"D", "O", "N", "E">>)],
     [BaseIssue EXCEPT !.statusCategory = Str(<<" ", "D", "o", "n", "e", " ">>)],
     [BaseIssue EXCEPT !.statusCategory = Null],
     [BaseIssue EXCEPT !.key = "B", !.priority = "Lowest", !.updated = At(-2)],
     [BaseIssue EXCEPT !.dueDate = At(10)]}

RankLists ==
    {<<r>> : r \in SingleRecords} \cup ListsUpTo(ListRecords, MaxQueryIssues)

\* The settings rank_next runs under: the first keyword setting, no flag field.
RankSettings == {s \in QuerySettings : s.blocked_flag_field = None /\ Head(s.blocked_link_keywords) = "B"}

\* ranked = rank_next(issues, top=top): the clock is read inside the call,
\* and a later call does not read an earlier time.
rank_next_call ==
    /\ qr.pc \in {"idle", "ranked"}
    /\ Len(qr.ranked) < MaxRankCalls
    /\ \E now \in RankClockReadings :
          /\ \A c \in 1..Len(qr.ranked) : qr.ranked[c].now <= now
          /\ qr' = [qr EXCEPT !.pc = "ranked",
                           !.ranked = Append(@, [now |-> now,
                                                 out |-> rank_next(qr.issues, qr.top, qr.settings, now)])]
    /\ UNCHANGED <<settings, jc, rr, ss, fa, fh, gate, tr, snap, db, nz, ch, sy>>

(***************************************************************************)
(* normalizer.py: normalize_issue, _normalize_minimal, _normalize_link.    *)
(* A JSON value is null, a string, an object (a function of its keys) or   *)
(* an array; a call returns a value or raises.                             *)
(***************************************************************************)
JNull == [t |-> "null"]
JStr(s) == [t |-> "str", s |-> s]
JDict(d) == [t |-> "dict", d |-> d]
JList(q) == [t |-> "list", q |-> q]
EmptyDict == JDict(<<>>)

IsDict(x) == x.t = "dict"

\* Python truthiness of a JSON value.
Truthy(x) ==
    CASE x.t = "null" -> FALSE
      [] x.t = "str" -> x.s # ""
      [] x.t = "dict" -> DOMAIN x.d # {}
      [] x.t = "list" -> x.q # <<>>

\* d.get(k) and d.get(k, default) on a dict d.
Get(d, k) == IF k \in DOMAIN d.d THEN d.d[k] ELSE JNull
GetOr(d, k, default) == IF k \in DOMAIN d.d THEN d.d[k] ELSE default

\* `value or {}`, `value or []`.
OrEmptyDict(x) == IF Truthy(x) THEN x ELSE EmptyDict
OrEmptyList(x) == IF Truthy(x) THEN x ELSE JList(<<>>)

\* `a or b` on two values.
Or(a, b) == IF Truthy(a) THEN a ELSE b

\* What a call leaves: a value, or the AttributeError of `.get` on a value
\* that is not a dict.
Returned(v) == [raised |-> FALSE, value |-> v]
Raised == [raised |-> TRUE, value |-> JNull]

\* str(val) of a value that is not a string.
StrOf(val) == JStr("str(val)")

_safe_str(val) ==
    CASE val.t = "null" -> JNull
      [] val.t = "str" -> val
      [] val.t = "dict" -> Or(Get(val, "name"), Or(Get(val, "displayName"), Or(Get(val, "value"), StrOf(val))))
      [] OTHER -> StrOf(val)

\* x.get("name") if isinstance(x, dict) else _safe_str(x)
name_of(x) == IF IsDict(x) THEN Get(x, "name") ELSE _safe_str(x)

_normalize_minimal(issue) ==
    IF ~IsDict(issue) THEN Raised
    ELSE LET fields == GetOr(issue, "fields", EmptyDict)
         IN  IF ~IsDict(fields) THEN Raised
             ELSE LET status == OrEmptyDict(Get(fields, "status"))
                      priority == OrEmptyDict(Get(fields, "priority"))
                      issuetype == OrEmptyDict(Get(fields, "issuetype"))
                      category == IF IsDict(status)
                                  THEN GetOr(status, "statusCategory", EmptyDict)
                                  ELSE EmptyDict
                  IN  IF ~IsDict(category) THEN Raised
                      ELSE Returned([key |-> Get(issue, "key"),
                                     id |-> Get(issue, "id"),
                                     summary |-> Get(fields, "summary"),
                                     type |-> name_of(issuetype),
                                     status |-> name_of(status),
                                     statusCategory |-> IF IsDict(status)
                                                        THEN Get(category, "name") ELSE JNull,
                                     priority |-> name_of(priority)])

\* link_type.get(label, type_name) with the type's name in place of the label.
relation_of_type_name(link_type, label, type_name) == type_name

\* relation = link_type.get("inward", type_name) / link_type.get("outward", type_name)
relation_of(link_type, label, type_name) == GetOr(link_type, label, type_name)

_normalize_link(link) ==
    IF ~IsDict(link) THEN Raised
    ELSE LET link_type == GetOr(link, "type", EmptyDict)
         IN  IF ~IsDict(link_type) THEN Raised
             ELSE LET type_name == GetOr(link_type, "name", JStr(""))
                      direction == IF "inwardIssue" \in DOMAIN link.d THEN "inward"
                                   ELSE IF "outwardIssue" \in DOMAIN link.d THEN "outward"
                                   ELSE "unknown"
                  IN  IF direction = "unknown"
                      THEN Returned([type |-> type_name, direction |-> "unknown",
                                     relation |-> type_name,
                                     linked_key |-> JNull, linked_summary |-> JNull,
                                     linked_status |-> JNull, linked_status_category |-> JNull])
                      ELSE LET linked == link.d[direction \o "Issue"]
                               relation == relation_of(link_type, direction, type_name)
                           IN  IF ~IsDict(linked) THEN Raised
                               ELSE LET linked_fields == GetOr(linked, "fields", EmptyDict)
                                    IN  IF ~IsDict(linked_fields) THEN Raised
                                        ELSE LET linked_status == GetOr(linked_fields, "status", EmptyDict)
                                                 category == IF IsDict(linked_status)
                                                             THEN GetOr(linked_status, "statusCategory", EmptyDict)
                                                             ELSE EmptyDict
                                             IN  IF ~IsDict(category) THEN Raised
                                                 ELSE Returned(
                                                        [type |-> type_name, direction |-> direction,
                                                         relation |-> relation,
                                                         linked_key |-> Get(linked, "key"),
                                                         linked_summary |-> Get(linked_fields, "summary"),
                                                         linked_status |-> IF IsDict(linked_status)
                                                                           THEN Get(linked_status, "name") ELSE JNull,
                                                         linked_status_category |-> IF IsDict(linked_status)
                                                                                    THEN Get(category, "name") ELSE JNull])

\* [f(x) for x in raw]: iterating a string or a dict hands f its characters
\* or keys, which are strings.
items_of(raw) ==
    CASE raw.t = "list" -> raw.q
      [] raw.t = "str" -> <<JStr("c")>>
      [] raw.t = "dict" -> <<JStr("k")>>

\* [_normalize_minimal(st) for st in subtasks_raw]
subtasks_of(subtasks_raw) ==
    LET each == [i \in 1..Len(items_of(subtasks_raw)) |-> _normalize_minimal(items_of(subtasks_raw)[i])]
    IN  IF \E i \in 1..Len(each) : each[i].raised THEN Raised
        ELSE Returned([i \in 1..Len(each) |-> each[i].value])

\* [_normalize_link(lnk) for lnk in links_raw]
links_of(links_raw) ==
    LET each == [i \in 1..Len(items_of(links_raw)) |-> _normalize_link(items_of(links_raw)[i])]
    IN  IF \E i \in 1..Len(each) : each[i].raised THEN Raised
        ELSE Returned([i \in 1..Len(each) |-> each[i].value])

\* [c.get("name") if isinstance(c, dict) else str(c) for c in components_raw]
components_of(components_raw) ==
    [i \in 1..Len(items_of(components_raw)) |->
        LET c == items_of(components_raw)[i]
        IN  IF IsDict(c) THEN Get(c, "name") ELSE IF c.t = "str" THEN c ELSE StrOf(c)]

\* _extract_description for a description that is absent, null or a string.
_extract_description(fields) ==
    LET desc == Get(fields, "description")
    IN  IF desc.t = "null" THEN [plain |-> JNull, raw |-> JNull]
        ELSE IF desc.t = "str" THEN [plain |-> desc, raw |-> desc]
        ELSE [plain |-> StrOf(desc), raw |-> desc]

normalize_issue(raw) ==
    LET fields == GetOr(raw, "fields", EmptyDict)
    IN  IF ~IsDict(fields) THEN Raised
        ELSE
        LET status == OrEmptyDict(Get(fields, "status"))
            status_category == IF IsDict(status)
                               THEN GetOr(status, "statusCategory", EmptyDict) ELSE EmptyDict
            priority == OrEmptyDict(Get(fields, "priority"))
            assignee_raw == OrEmptyDict(Get(fields, "assignee"))
            issuetype == OrEmptyDict(Get(fields, "issuetype"))
            project == OrEmptyDict(Get(fields, "project"))
            desc == _extract_description(fields)
            parent_raw == Get(fields, "parent")
            parent == IF Truthy(parent_raw) THEN _normalize_minimal(parent_raw) ELSE Returned(JNull)
            subtasks == subtasks_of(OrEmptyList(Get(fields, "subtasks")))
            links == links_of(OrEmptyList(Get(fields, "issuelinks")))
        IN  IF parent.raised \/ subtasks.raised \/ links.raised THEN Raised
            ELSE Returned(
                [key |-> Get(raw, "key"),
                 id |-> Get(raw, "id"),
                 projectKey |-> IF IsDict(project) THEN Get(project, "key") ELSE JNull,
                 type |-> name_of(issuetype),
                 summary |-> Get(fields, "summary"),
                 status |-> name_of(status),
                 statusCategory |-> IF IsDict(status_category)
                                    THEN Get(status_category, "name") ELSE JNull,
                 priority |-> name_of(priority),
                 assignee |-> IF ~Truthy(assignee_raw) THEN JNull
                              ELSE IF IsDict(assignee_raw)
                                   THEN Or(Get(assignee_raw, "displayName"),
                                           Or(Get(assignee_raw, "name"), Get(assignee_raw, "emailAddress")))
                                   ELSE _safe_str(assignee_raw),
                 created |-> Get(fields, "created"),
                 updated |-> Get(fields, "updated"),
                 dueDate |-> Get(fields, "duedate"),
                 description_plain |-> desc.plain,
                 description_raw |-> desc.raw,
                 parent |-> parent.value,
                 subtasks |-> subtasks.value,
                 links |-> links.value,
                 labels |-> OrEmptyList(Get(fields, "labels")),
                 components |-> components_of(OrEmptyList(Get(fields, "components")))])

\* The issue a link points at, as Jira sends it and with its fields left out.
FullLinked ==
    JDict([key |-> JStr("L"),
           fields |-> JDict([summary |-> JStr("linked"),
                             status |-> JDict([name |-> JStr("Open"),
                                               statusCategory |-> JDict([name |-> JStr("To Do")])])])])
SparseLinked == JDict([key |-> JStr("L")])

\* The "type" entry of a raw link: none, a name alone, a name with both
\* labels, both labels without name.
LinkTypeEntries ==
    {<<>>,
     [type |-> JDict([name |-> JStr("Blocks")])],
     [type |-> JDict([name |-> JStr("Blocks"), inward |-> JStr("is blocked by"),
                      outward |-> JStr("blocks")])],
     [type |-> JDict([inward |-> JStr("is blocked by"), outward |-> JStr("blocks")])]}

\* The issue entry of a raw link: Jira sends inwardIssue or outwardIssue,
\* never both; a link can have neither.
LinkIssueEntries ==
    {<<>>} \cup {[inwardIssue |-> l] : l \in {FullLinked, SparseLinked}}
           \cup {[outwardIssue |-> l] : l \in {FullLinked, SparseLinked}}

WellFormedLinks == {JDict(ty @@ side) : ty \in LinkTypeEntries, side \in LinkIssueEntries}

\* Raw links with a null or a value of the wrong shape inside.
MalformedLinks ==
    {JNull,
     JDict([type |-> JNull]),
     JDict([type |-> JStr("Blocks")]),
     JDict([inwardIssue |-> JNull]),
     JDict([outwardIssue |-> JDict([key |-> JStr("L"), fields |-> JNull])]),
     JDict([inwardIssue |-> JDict([fields |-> JDict([status |-> JDict([name |-> JStr("Open"),
                                                                     statusCategory |-> JNull])])])])}

\* A parent or subtask as Jira sends it, and sparse or malformed ones.
FullMinimal ==
    JDict([key |-> JStr("P"), id |-> JStr("1"),
           fields |-> JDict([summary |-> JStr("parent"),
                             status |-> JDict([name |-> JStr("Open"),
                                               statusCategory |-> JDict([name |-> JStr("To Do")])]),
                             priority |-> JDict([name |-> JStr("High")]),
                             issuetype |-> JDict([name |-> JStr("Epic")])])])

MinimalShapes ==
    {FullMinimal,
     JDict([key |-> JStr("P")]),
     JDict([key |-> JStr("P"), fields |-> JNull]),
     JDict([key |-> JStr("P"), fields |-> JDict([status |-> JStr("Open")])]),
     JDict([key |-> JStr("P"), fields |-> JDict([status |-> JDict([name |-> JStr("Open"),
                                                                 statusCategory |-> JNull])])]),
     JStr("P"), JNull}

StatusShapes ==
    {JNull, JStr("Open"), EmptyDict,
     JDict([name |-> JStr("Open")]),
     JDict([name |-> JStr("Open"), statusCategory |-> JNull]),
     JDict([name |-> JStr("Open"), statusCategory |-> JStr("To Do")]),
     JDict([name |-> JStr("Open"), statusCategory |-> JDict([name |-> JStr("To Do")])])}

\* The values one of the other fields can hold.
FieldValues ==
    {JNull, JStr("x"), JStr(""), EmptyDict, JDict([name |-> JStr("n")]),
     JDict([displayName |-> JStr("d")]), JDict([emailAddress |-> JStr("e")]),
     JDict([key |-> JStr("K")]),
     JList(<<>>), JList(<<JStr("l")>>), JList(<<JDict([name |-> JStr("c")])>>)}

OtherFields ==
    {"summary", "priority", "assignee", "issuetype", "project", "description",
     "created", "updated", "duedate", "labels", "components"}

\* A raw record with the given entries under "fields".
Raw(fields) == JDict([key |-> JStr("A"), id |-> JStr("10"), fields |-> JDict(fields)])

\* Raw records without "fields", or with a "fields" that is not a dict.
SparseRaws ==
    {EmptyDict, JDict([key |-> JStr("A")]), Raw(<<>>),
     JDict([key |-> JStr("A"), fields |-> JNull]),
     JDict([key |-> JStr("A"), fields |-> JStr("x")]),
     JDict([key |-> JStr("A"), fields |-> JList(<<>>)])}

\* Raw records whose links are lists of well-formed links and whose other
\* fields are as Jira sends them.
LinkRaws ==
    {Raw([summary |-> JStr("s"), issuelinks |-> JList(l)]) : l \in ListsUpTo(WellFormedLinks, MaxLinks)}

RawRecords ==
    SparseRaws \cup LinkRaws
    \cup {Raw([status |-> s]) : s \in StatusShapes}
    \cup {Raw([parent |-> p]) : p \in MinimalShapes}
    \cup {Raw([status |-> s, parent |-> FullMinimal]) : s \in StatusShapes}
    \cup {Raw([subtasks |-> l]) : l \in {JNull, JStr("x"), JDict([key |-> JStr("S")])}}
    \cup {Raw([subtasks |-> JList(l)]) : l \in ListsUpTo(MinimalShapes, MaxLinks)}
    \cup {Raw([issuelinks |-> l]) : l \in {JNull, JStr("x"), JDict([type |-> JStr("t")])}}
    \cup {Raw([issuelinks |-> JList(<<l>>)]) : l \in MalformedLinks}
    \cup {Raw([issuelinks |-> JList(<<w, l>>)]) : w \in WellFormedLinks, l \in MalformedLinks}
    \cup {Raw(k :> v) : k \in OtherFields, v \in FieldValues}

NzIdle == [pc |-> "idle", raw |-> EmptyDict, out |-> Returned(JNull)]

\* normalize_issues: normalize_issue(issue) for one raw record.
normalize_issue_call ==
    /\ nz.pc = "idle"
    /\ nz' = [nz EXCEPT !.pc = "done", !.out = normalize_issue(nz.raw)]
    /\ UNCHANGED <<settings, jc, rr, ss, fa, fh, gate, tr, snap, db, qr, ch, sy>>

(***************************************************************************)
(* api/routes_issues.py: _TTL_CACHE, _get_cache, _set_cache and the cache  *)
(* key of list_issues.  Times are in seconds.                              *)
(***************************************************************************)
\* _get_cache(key, ttl=60)
default_ttl == 60

\* f"{value}" of an Optional[str] parameter: None is rendered as "None".
render(v) == IF v.null THEN <<"N", "o", "n", "e">> ELSE v.chars

\* The request parameters the model varies, status and assignees; limit,
\* cursor, updated_days, assignee_any, projects, statuses and priorities
\* keep their defaults.
CacheParams ==
    {[status |-> Str(<<"x">>), assignees |-> Str(<<"y", "_", "z">>)],
     [status |-> Str(<<"x", "_", "y">>), assignees |-> Str(<<"z">>)],
     [status |-> Str(<<"x">>), assignees |-> Str(<<"z">>)],
     [status |-> Null, assignees |-> Str(<<"z">>)],
     [status |-> Null, assignees |-> Null]}

\* A key that joins the parameters with a separator no parameter can hold.
cache_key_unambiguous(params) ==
    <<"issues_l100_cNone_d30">> \o <<params.status>> \o <<params.assignees>>
        \o <<"False_None_None_None">>

\* cache_key = f"issues_l{limit}_c{cursor}_d{updated_days}_{status}_{assignees}_
\*              {assignee_any}_{projects}_{statuses}_{priorities}"
cache_key(params) ==
    <<"issues_l100_cNone_d30", "_">> \o render(params.status) \o <<"_">>
        \o render(params.assignees) \o <<"_", "False_None_None_None">>

\* The entry _TTL_CACHE holds under a key, if any.
entry_of(cache, key) == {en \in cache : en.key = key}

\* _get_cache: the data and the cache it leaves; an entry found expired is
\* deleted.
_get_cache(cache, key, ttl, now) ==
    LET found == entry_of(cache, key)
    IN  IF found = {} THEN [hit |-> FALSE, data |-> found, cache |-> cache]
        ELSE IF \E en \in found : now - en.ts < ttl
             THEN [hit |-> TRUE, data |-> found, cache |-> cache]
             ELSE [hit |-> FALSE, data |-> {}, cache |-> cache \ found]

\* _set_cache: _TTL_CACHE[key] = (time.time(), data)
_set_cache(cache, key, data, now) ==
    (cache \ entry_of(cache, key)) \cup {[key |-> key, ts |-> now, data |-> data]}

NoRequest == [status |-> Null, assignees |-> Null]

ChIdle ==
    [pc |-> "idle", clock |-> 0, cache |-> {}, params |-> NoRequest,
     served |-> 0, expired |-> FALSE, answer |-> {}]

\* time.time() moves on between requests, half a ttl at a time.
cache_clock_tick ==
    /\ ch.clock < MaxCacheTicks * (default_ttl \div 2)
    /\ ch' = [ch EXCEPT !.clock = @ + (default_ttl \div 2)]
    /\ UNCHANGED <<settings, jc, rr, ss, fa, fh, gate, tr, snap, db, qr, nz, sy>>

\* GET /issues, up to the first await: the key, the cache read, and the
\* answer from the cache.
list_issues_check ==
    /\ ch.pc \in {"idle", "served"}
    /\ ch.served < MaxRequests
    /\ \E params \in CacheParams :
          LET key == cache_key(params)
              got == _get_cache(ch.cache, key, default_ttl, ch.clock)
          IN  ch' = [ch EXCEPT !.pc = IF got.hit THEN "served" ELSE "fetching",
                               !.params = params,
                               !.cache = got.cache,
                               !.expired = entry_of(ch.cache, key) # {} /\ ~got.hit,
                               !.served = IF got.hit THEN @ + 1 ELSE @,
                               !.answer = IF got.hit
                                          THEN {[source |-> "cache", data |-> en.data,
                                                 age |-> ch.clock - en.ts] : en \in got.data}
                                          ELSE {}]
    /\ UNCHANGED <<settings, jc, rr, ss, fa, fh, gate, tr, snap, db, qr, nz, sy>>

\* GET /issues after the fetch: the result, computed for the request's
\* parameters, is cached and returned; a fetch that raised caches nothing.
list_issues_store ==
    /\ ch.pc = "fetching"
    /\ \/ ch' = [ch EXCEPT !.pc = "served", !.served = @ + 1,
                           !.cache = _set_cache(ch.cache, cache_key(ch.params), ch.params, ch.clock),
                           !.answer = {[source |-> "live", data |-> ch.params, age |-> 0]}]
       \/ ch' = [ch EXCEPT !.pc = "served", !.served = @ + 1, !.answer = {}]
    /\ UNCHANGED <<settings, jc, rr, ss, fa, fh, gate, tr, snap, db, qr, nz, sy>>

(***************************************************************************)
(* cli/main.py: sync, api/routes_system.py: sync.  One sync runs at a      *)
(* time; sy.before is what the files and the database held at its start.   *)
(***************************************************************************)
\* What the sync does after `with JiraClient() as client:
\* raw_issues = client.fetch_with_hierarchy()` whatever came of it.
after_fetch_goes_on(ctor, outcome) == "fetched"

\* The constructor's JiraClientError and an error raised by
\* fetch_with_hierarchy leave the try block: the CLI prints it and exits
\* with status 1, the API answers 500.
after_fetch(ctor, outcome) ==
    IF ctor = "JiraClientError" \/ outcome = "raised" THEN "failed" ELSE "fetched"

\* The error the sync reports, if any.
error_of(ctor, outcome) ==
    IF ctor = "JiraClientError" THEN "config"
    ELSE IF outcome = "raised" THEN "transport" ELSE None

NothingSaved == [archive |-> <<>>, tasks |-> NoFile, tasks_tree |-> NoFile, db |-> DbIdle, saved |-> 0]

SyIdle ==
    [pc |-> "idle", who |-> "cli", use_db |-> FALSE, error |-> None, runs |-> 0,
     before |-> NothingSaved]

\* taskforge sync [--use-db] / POST /sync: JiraClient() validates the
\* configuration.
sync_start(p, use_db) ==
    /\ sy.pc = "idle"
    /\ sy.runs < MaxSyncRuns
    /\ sy' = [sy EXCEPT !.pc = "constructed", !.who = p, !.use_db = use_db,
                        !.runs = @ + 1,
                        !.before = [archive |-> snap.archive, tasks |-> snap.tasks,
                                    tasks_tree |-> snap.tasks_tree, db |-> db,
                                    saved |-> Len(snap.saved)]]
    /\ jc' = [JcNew EXCEPT !.ctor = IF validate_jira_config(settings) # <<>>
                                    THEN "JiraClientError" ELSE "ok"]
    /\ UNCHANGED <<settings, rr, ss, fa, fh, gate, tr, snap, db, qr, nz, ch>>

\* raw_issues = client.fetch_with_hierarchy(), which returns or raises.
sync_fetch ==
    /\ sy.pc = "constructed"
    /\ \E outcome \in {"returned", "raised"} :
          sy' = [sy EXCEPT !.pc = after_fetch(jc.ctor, outcome),
                           !.error = error_of(jc.ctor, outcome)]
    /\ UNCHANGED <<settings, jc, rr, ss, fa, fh, gate, tr, snap, db, qr, nz, ch>>

\* snap_path = save_snapshot(issues, tree), first write.
sync_save_snapshot ==
    /\ sy.pc = "fetched"
    /\ Len(snap.saved) = sy.before.saved
    /\ save_snapshot_archive(sy.who)

\* if use_db: store.record_sync(issues, snap_path) with the records that
\* were saved, whose failure is logged and goes no further; then the sync
\* reports success.
sync_record ==
    /\ sy.pc = "fetched"
    /\ Len(snap.saved) > sy.before.saved
    /\ snap.sync[sy.who].pc = "idle"
    /\ \/ /\ sy.use_db
          /\ \E issues \in HistoryLists :
                /\ Len(issues) = Len(snap.saved[Len(snap.saved)].issues)
                /\ db' = record_sync(db, issues, snap.clock + 1)
       \/ db' = db
    /\ sy' = [sy EXCEPT !.pc = "done"]
    /\ UNCHANGED <<settings, jc, rr, ss, fa, fh, gate, tr, snap, qr, nz, ch>>

\* The command ends, and can be run again.
sync_exit ==
    /\ sy.pc \in {"failed", "done"}
    /\ sy' = [SyIdle EXCEPT !.runs = sy.runs]
    /\ UNCHANGED <<settings, jc, rr, ss, fa, fh, gate, tr, snap, db, qr, nz, ch>>



(***************************************************************************)
(* Specifications                                                          *)
(***************************************************************************)
InitConfig ==
    /\ settings \in {s \in AllSettings : s.jira_max_retries = 0}
    /\ jc = JcNew
    /\ rr = RrIdle /\ ss = SsIdle /\ fa = FaIdle /\ fh = FhIdle /\ gate = GateIdle
    /\ tr = TrIdle /\ snap = SnapIdle /\ db = DbIdle
    /\ qr = QrIdle /\ nz = NzIdle /\ ch = ChIdle /\ sy = SyIdle

NextConfig == JiraClient_init \/ build_client \/ client_request \/ close

SpecConfig == InitConfig /\ [][NextConfig]_vars

InitRetry ==
    /\ settings \in {s \in ValidSettings : s.jira_base_url = <<"https://jira.example">>
                                           /\ s.jira_auth_mode = "server" /\ s.jira_email = ""}
    /\ jc = JcReady
    /\ rr = RrIdle /\ ss = SsIdle /\ fa = FaIdle /\ fh = FhIdle /\ gate = GateIdle
    /\ tr = TrIdle /\ snap = SnapIdle /\ db = DbIdle
    /\ qr = QrIdle /\ nz = NzIdle /\ ch = ChIdle /\ sy = SyIdle

NextRetry == request_with_retry_call \/ request_with_retry_step

SpecRetry == InitRetry /\ [][NextRetry]_vars

InitSearch ==
    /\ settings \in {s \in ValidSettings : s.jira_base_url = <<"https://jira.example">>
                                           /\ s.jira_email = "user@example.com"}
    /\ jc = JcReady
    /\ rr = RrIdle /\ ss = SsIdle /\ fa = FaIdle /\ fh = FhIdle /\ gate = GateIdle
    /\ tr = TrIdle /\ snap = SnapIdle /\ db = DbIdle
    /\ qr = QrIdle /\ nz = NzIdle /\ ch = ChIdle /\ sy = SyIdle

NextSearch == search_issues_call \/ request_with_retry_step \/ search_issues_resume

SpecSearch == InitSearch /\ [][NextSearch]_vars

InitFetch ==
    /\ settings \in {s \in ValidSettings : s.jira_base_url = <<"https://jira.example">>
                                           /\ s.jira_auth_mode = "cloud"
                                           /\ s.jira_max_retries = 0}
    /\ jc = JcReady
    /\ rr = RrIdle /\ ss = SsIdle /\ fa = FaIdle /\ fh = FhIdle /\ gate = GateIdle
    /\ tr = TrIdle /\ snap = SnapIdle /\ db = DbIdle
    /\ qr = QrIdle /\ nz = NzIdle /\ ch = ChIdle /\ sy = SyIdle

NextFetch == fetch_all_assigned_call \/ fetch_all_assigned_iteration

SpecFetch == InitFetch /\ [][NextFetch]_vars

\* fetch_all_assigned runs in one thread that is never suspended for good:
\* a loop iteration that can run does run.
FairSpecFetch == SpecFetch /\ WF_vars(NextFetch)

InitHier ==
    /\ settings \in {s \in ValidSettings : s.jira_base_url = <<"https://jira.example">>
                                           /\ s.jira_auth_mode = "cloud"
                                           /\ s.jira_max_retries = 0}
    /\ jc = JcReady
    /\ rr = RrIdle /\ ss = SsIdle /\ fa = FaIdle /\ fh = FhIdle /\ gate = GateIdle
    /\ tr = TrIdle /\ snap = SnapIdle /\ db = DbIdle
    /\ qr = QrIdle /\ nz = NzIdle /\ ch = ChIdle /\ sy = SyIdle

NextHier == fetch_with_hierarchy_call \/ fetch_with_hierarchy_chase

SpecHier == InitHier /\ [][NextHier]_vars

InitGate == InitHier

NextGate ==
    \E c \in Callers :
        \/ fetch_page_acquire(c)
        \/ fetch_page_send(c)
        \/ fetch_page_answer(c)
        \/ fetch_page_resume(c)
        \/ fetch_page_wake(c)
        \/ blocking_handler_start(c)
        \/ blocking_handler_step(c)

SpecGate == InitGate /\ [][NextGate]_vars

InitTree ==
    /\ settings \in {s \in ValidSettings : s.jira_base_url = <<"https://jira.example">>
                                           /\ s.jira_auth_mode = "cloud"
                                           /\ s.jira_max_retries = 0}
    /\ jc = JcReady
    /\ rr = RrIdle /\ ss = SsIdle /\ fa = FaIdle /\ fh = FhIdle /\ gate = GateIdle
    /\ tr \in {[TrIdle EXCEPT !.issues = q] : q \in ListsUpTo(TreeRecords, MaxIssues)}
    /\ snap = SnapIdle /\ db = DbIdle
    /\ qr = QrIdle /\ nz = NzIdle /\ ch = ChIdle /\ sy = SyIdle

NextTree == build_tree_call \/ flatten_tree_call

SpecTree == InitTree /\ [][NextTree]_vars

InitStore ==
    /\ settings \in {s \in ValidSettings : s.jira_base_url = <<"https://jira.example">>
                                           /\ s.jira_auth_mode = "cloud"
                                           /\ s.jira_max_retries = 0}
    /\ jc = JcReady
    /\ rr = RrIdle /\ ss = SsIdle /\ fa = FaIdle /\ fh = FhIdle /\ gate = GateIdle
    /\ tr = TrIdle /\ snap = SnapIdle /\ db = DbIdle
    /\ qr = QrIdle /\ nz = NzIdle /\ ch = ChIdle /\ sy = SyIdle

NextStore ==
    \/ clock_tick
    \/ \E p \in Syncers :
          \/ save_snapshot_archive(p)
          \/ save_snapshot_tasks(p)
          \/ save_snapshot_tree(p)
    \/ list_issues_set_cache
    \/ issues_last_expires
    \/ get_tree_load
    \/ get_tree_return

SpecStore == InitStore /\ [][NextStore]_vars

InitHistory == InitStore

NextHistory == record_sync_call

SpecHistory == InitHistory /\ [][NextHistory]_vars

InitBlocked ==
    /\ settings \in {s \in ValidSettings : s.jira_base_url = <<"https://jira.example">>
                                           /\ s.jira_auth_mode = "cloud"
                                           /\ s.jira_max_retries = 0}
    /\ jc = JcReady
    /\ rr = RrIdle /\ ss = SsIdle /\ fa = FaIdle /\ fh = FhIdle /\ gate = GateIdle
    /\ tr = TrIdle /\ snap = SnapIdle /\ db = DbIdle
    /\ nz = NzIdle /\ ch = ChIdle /\ sy = SyIdle
    /\ qr \in {[QrIdle EXCEPT !.settings = s, !.issues = q] :
                  s \in QuerySettings, q \in ListsUpTo(BlockedRecords, MaxQueryIssues)}

NextBlocked == find_blocked_call

SpecBlocked == InitBlocked /\ [][NextBlocked]_vars

InitRank ==
    /\ settings \in {s \in ValidSettings : s.jira_base_url = <<"https://jira.example">>
                                           /\ s.jira_auth_mode = "cloud"
                                           /\ s.jira_max_retries = 0}
    /\ jc = JcReady
    /\ rr = RrIdle /\ ss = SsIdle /\ fa = FaIdle /\ fh = FhIdle /\ gate = GateIdle
    /\ tr = TrIdle /\ snap = SnapIdle /\ db = DbIdle
    /\ nz = NzIdle /\ ch = ChIdle /\ sy = SyIdle
    /\ qr \in {[QrIdle EXCEPT !.settings = s, !.issues = q, !.top = t] :
                  s \in RankSettings, q \in RankLists, t \in Tops}

NextRank == rank_next_call

SpecRank == InitRank /\ [][NextRank]_vars

InitNormalize ==
    /\ settings \in {s \in ValidSettings : s.jira_base_url = <<"https://jira.example">>
                                           /\ s.jira_auth_mode = "cloud"
                                           /\ s.jira_max_retries = 0}
    /\ jc = JcReady
    /\ rr = RrIdle /\ ss = SsIdle /\ fa = FaIdle /\ fh = FhIdle /\ gate = GateIdle
    /\ tr = TrIdle /\ snap = SnapIdle /\ db = DbIdle
    /\ qr = QrIdle /\ ch = ChIdle /\ sy = SyIdle
    /\ nz \in {[NzIdle EXCEPT !.raw = r] : r \in RawRecords}

NextNormalize == normalize_issue_call

SpecNormalize == InitNormalize /\ [][NextNormalize]_vars

InitCache ==
    /\ settings \in {s \in ValidSettings : s.jira_base_url = <<"https://jira.example">>
                                           /\ s.jira_auth_mode = "cloud"
                                           /\ s.jira_max_retries = 0}
    /\ jc = JcReady
    /\ rr = RrIdle /\ ss = SsIdle /\ fa = FaIdle /\ fh = FhIdle /\ gate = GateIdle
    /\ tr = TrIdle /\ snap = SnapIdle /\ db = DbIdle
    /\ qr = QrIdle /\ nz = NzIdle /\ ch = ChIdle /\ sy = SyIdle

NextCache == cache_clock_tick \/ list_issues_check \/ list_issues_store

SpecCache == InitCache /\ [][NextCache]_vars

InitSync ==
    /\ settings \in {s \in AllSettings : s.jira_base_url = <<"https://jira.example">>
                                         /\ s.jira_auth_mode = "cloud"
                                         /\ s.jira_email # ""
                                         /\ s.jira_max_retries = 0}
    /\ jc = JcNew
    /\ rr = RrIdle /\ ss = SsIdle /\ fa = FaIdle /\ fh = FhIdle /\ gate = GateIdle
    /\ tr = TrIdle /\ snap = SnapIdle /\ db = DbIdle
    /\ qr = QrIdle /\ nz = NzIdle /\ ch = ChIdle /\ sy = SyIdle

\* The syncs of this specification run within one minute of the clock.
NextSync ==
    \/ \E p \in Syncers, use_db \in BOOLEAN : sync_start(p, use_db)
    \/ sync_fetch
    \/ sync_save_snapshot
    \/ save_snapshot_tasks(sy.who)
    \/ save_snapshot_tree(sy.who)
    \/ sync_record
    \/ sync_exit

SpecSync == InitSync /\ [][NextSync]_vars






(***************************************************************************)
(* Claims about JiraClient.__init__ and validate_jira_config (SpecConfig)  *)
(***************************************************************************)
\* C6: constructing a client with settings validate_jira_config rejects
\* raises JiraClientError before an HTTP client is built or a request sent;
\* validate_jira_config returns no error exactly when base URL and token are
\* non-empty, the mode is cloud or server and, in cloud mode, the email is
\* non-empty.
C6_FailFast ==
    /\ (validate_jira_config(settings) = <<>>) <=>
          /\ settings.jira_base_url # <<>>
          /\ settings.jira_api_token # ""
          /\ settings.jira_auth_mode \in {"cloud", "server"}
          /\ settings.jira_auth_mode = "cloud" => settings.jira_email # ""
    /\ jc.ctor # "none" =>
          (jc.ctor = "JiraClientError" <=> validate_jira_config(settings) # <<>>)
    /\ validate_jira_config(settings) # <<>> => (jc.client = "unset" /\ jc.sent = 0)

\* C6 witness: a cloud client without email was refused by the constructor.
C6_Witness ==
    /\ jc.ctor = "JiraClientError"
    /\ settings.jira_auth_mode = "cloud"
    /\ settings.jira_email = ""
    /\ settings.jira_base_url # <<>>
    /\ settings.jira_api_token # ""

(***************************************************************************)
(* Claims about JiraClient._request_with_retry (under SpecRetry)           *)
(***************************************************************************)
\* An attempt that did not produce a response to return.
IsFailure(o) == o.kind = "transport" \/ o.status = 429 \/ o.status >= 500

\* C2: one call sends at most jira_max_retries + 1 requests; when all of
\* them fail (429, 5xx or a network failure) the call raises JiraClientError;
\* a 429 or 5xx response is never what the call returns.
C2_RetryBudget ==
    /\ Len(rr.outcomes) <= settings.jira_max_retries + 1
    /\ (/\ Len(rr.outcomes) = settings.jira_max_retries + 1
        /\ \A i \in 1..Len(rr.outcomes) : IsFailure(rr.outcomes[i]))
       => rr.pc = "JiraClientError"
    /\ rr.pc = "returned" => (rr.status # 429 /\ rr.status < 500)

\* C2 witness: the budget is used up by a mix of the three kinds of failure.
C2_Witness ==
    /\ rr.pc = "JiraClientError"
    /\ Len(rr.outcomes) = 3
    /\ rr.outcomes[1].kind = "transport"
    /\ rr.outcomes[2].status = 429
    /\ rr.outcomes[3].status = 503

\* The seconds a Retry-After value of the model stands for; -1: not an integer.
HeaderSeconds(h) ==
    CASE h = Header(<<"2">>) -> 2
      [] h = Header(<<"1", "0">>) -> 10
      [] OTHER -> -1

ExpectedWait(o, a) ==
    IF o.kind = "response" /\ (o.status = 429 \/ o.status >= 500) /\ HeaderSeconds(o.retry_after) >= 0
    THEN HeaderSeconds(o.retry_after)
    ELSE 2 ^ a

RECURSIVE SumSeq(_)
SumSeq(q) == IF q = <<>> THEN 0 ELSE q[1] + SumSeq(Tail(q))

\* C3: the wait after failed attempt a (from 0) is the Retry-After value when
\* the failure was a 429/5xx response whose header is an integer, and 2^a in
\* every other case; a 429 with Retry-After: 2 followed by a success waits
\* at least 2 seconds and returns the successful response.
C3_RetryWait ==
    /\ \A i \in 1..Len(rr.waits) : rr.waits[i] = ExpectedWait(rr.outcomes[i], i - 1)
    /\ (/\ rr.pc \in RrDone
        /\ Len(rr.outcomes) = 2
        /\ rr.outcomes[1].status = 429
        /\ rr.outcomes[1].retry_after = Header(<<"2">>)
        /\ rr.outcomes[2].status = 200)
       => (rr.pc = "returned" /\ rr.status = 200 /\ SumSeq(rr.waits) >= 2)

\* C3 witness: a 429 with Retry-After: 2, a sleep of 2 seconds, then a success.
C3_Witness ==
    /\ rr.pc = "returned"
    /\ Len(rr.outcomes) = 2
    /\ rr.outcomes[1].status = 429
    /\ rr.outcomes[1].retry_after = Header(<<"2">>)
    /\ rr.waits = <<2>>

(***************************************************************************)
(* Claims about JiraClient._search_issues (under SpecSearch)               *)
(***************************************************************************)
\* C4: with a token only the cursor endpoint is attempted and its failure
\* fails the call; with no token, start_at 0 and cloud mode the cursor
\* endpoint comes first and its failure is followed by offset mode in the
\* same call; in every other case only offset mode is attempted.
C4_ModeSelection ==
    ss.pc # "idle" =>
        LET t == ss.tried
        IN  IF ss.next_token # None THEN
                /\ Len(t) = 1
                /\ t[1].url = "/rest/api/3/search/jql"
                /\ t[1].ok = "failed" => ss.pc = "raised"
            ELSE IF ss.start_at = 0 /\ settings.jira_auth_mode = "cloud" THEN
                /\ t[1].url = "/rest/api/3/search/jql"
                /\ t[1].ok = "failed" => (Len(t) >= 2 /\ t[2].url # "/rest/api/3/search/jql")
                /\ t[1].ok = "ok" => (Len(t) = 1 /\ ss.pc = "returned")
                /\ \A i \in 2..Len(t) : t[i].url # "/rest/api/3/search/jql"
            ELSE
                \A i \in 1..Len(t) : t[i].url # "/rest/api/3/search/jql"

\* C4 witness: the opportunistic cursor attempt failed and offset mode answered.
C4_Witness ==
    /\ ss.pc = "returned"
    /\ ss.next_token = None
    /\ Len(ss.tried) = 2
    /\ ss.tried[1].url = "/rest/api/3/search/jql"
    /\ ss.tried[1].ok = "failed"
    /\ ss.tried[2].ok = "ok"

OffsetOrder ==
    << [method |-> "POST", url |-> "/rest/api/3/search"],
       [method |-> "GET",  url |-> "/rest/api/3/search"],
       [method |-> "POST", url |-> "/rest/api/2/search"] >>

IsOffsetRequest(t) == t.url # "/rest/api/3/search/jql"

\* C5: offset mode requests v3 POST, v3 GET, v2 POST in that order, each
\* through _request_with_retry; a later one only after every earlier one
\* failed; the call returns the first success and fails when all three fail.
C5_OffsetOrder ==
    LET off == SelectSeq(ss.tried, IsOffsetRequest)
    IN  /\ Len(off) <= 3
        /\ \A i \in 1..Len(off) :
              /\ off[i].method = OffsetOrder[i].method
              /\ off[i].url = OffsetOrder[i].url
              /\ i < Len(off) => off[i].ok = "failed"
        /\ (ss.pc \in Variants /\ ss.pc # "cursor") =>
              /\ rr.pc # "idle"
              /\ rr.method = off[Len(off)].method
              /\ rr.url = off[Len(off)].url
              /\ off[Len(off)].ok = "pending"
        /\ (ss.pc = "returned" /\ off # <<>>) =>
              /\ off[Len(off)].ok = "ok"
              /\ ss.result = off[Len(off)].variant
        /\ (Len(off) = 3 /\ off[3].ok = "failed") => ss.pc = "raised"
        /\ ss.pc = "raised" => \A i \in 1..Len(ss.tried) : ss.tried[i].ok = "failed"

\* C5 witness: v3 POST and v3 GET failed, v2 POST answered.
C5_Witness ==
    /\ ss.pc = "returned"
    /\ ss.result = "v2post"
    /\ Len(SelectSeq(ss.tried, IsOffsetRequest)) = 3

\* C5 witness of the failing end: all three offset requests failed.
C5_AllFailed ==
    /\ ss.pc = "raised"
    /\ Len(SelectSeq(ss.tried, IsOffsetRequest)) = 3

(***************************************************************************)
(* Claims about JiraClient.fetch_all_assigned (under SpecFetch)            *)
(***************************************************************************)
\* Page i belongs to a cursor-mode sequence: every page before it carried a
\* continuation token, which the request for the next page sent.
CursorModeAt(i) ==
    /\ i >= 2
    /\ \A j \in 1..(i - 1) : truthy(fa.pages[j].nextPageToken) /\ fa.pages[j].nextPageToken # Absent

\* C1: in a cursor-mode page sequence, once a response omits nextPageToken
\* or holds fewer than page_size records the loop ends and no further search
\* request is sent; no continuation token is sent in two requests.
C1_CursorEnds ==
    /\ \A i \in 1..Len(fa.pages) :
          (/\ CursorModeAt(i)
           /\ (fa.pages[i].nextPageToken = Absent \/ fa.pages[i].issues < page_size))
          => (fa.pc = "returned" /\ Len(fa.calls) = i)
    /\ \A i, j \in 1..Len(fa.calls) :
          (i < j /\ fa.calls[i].next_token # None)
          => fa.calls[i].next_token # fa.calls[j].next_token

(***************************************************************************)
(* Claims about JiraClient.fetch_with_hierarchy (under SpecHier)           *)
(***************************************************************************)
\* Key k is referenced by record r: as parent, subtask, or either link end.
References(r, k) ==
    \/ r.fields.parent.key = k
    \/ \E i \in 1..Len(r.fields.subtasks) : r.fields.subtasks[i].key = k
    \/ \E i \in 1..Len(r.fields.issuelinks) :
          \/ "inwardIssue" \in DOMAIN r.fields.issuelinks[i]
             /\ r.fields.issuelinks[i].inwardIssue.key = k
          \/ "outwardIssue" \in DOMAIN r.fields.issuelinks[i]
             /\ r.fields.issuelinks[i].outwardIssue.key = k

PrimaryKeys == {fh.assigned[i].key : i \in 1..Len(fh.assigned)}

\* The keys the chase is to fetch: referenced by a primary record, not primary.
ToChase ==
    {k \in Keys \ PrimaryKeys : \E i \in 1..Len(fh.assigned) : References(fh.assigned[i], k)}

FetchCalls(k) == Cardinality({i \in 1..Len(fh.chased) : fh.chased[i].key = k})

\* C7: fetch_issue is called exactly once for each key a primary record
\* references that is not a primary key, and never for any other key.
C7_ChaseExactlyOnce ==
    /\ \A k \in Keys : FetchCalls(k) <= 1
    /\ \A k \in Keys : FetchCalls(k) = 1 => k \in ToChase
    /\ fh.pc = "returned" => \A k \in ToChase : FetchCalls(k) = 1

\* C7 witness: two primary records reference the same missing key, a third
\* key is primary and referenced; one fetch_issue call was made.
C7_Witness ==
    /\ fh.pc = "returned"
    /\ Len(fh.assigned) = 2
    /\ PrimaryKeys = {"A", "B"}
    /\ References(fh.assigned[1], "C") /\ References(fh.assigned[2], "C")
    /\ References(fh.assigned[1], "B")
    /\ Len(fh.chased) = 1

Succeeded == {fh.chased[i].key : i \in {j \in 1..Len(fh.chased) : fh.chased[j].ok}}
Failed == {fh.chased[i].key : i \in {j \in 1..Len(fh.chased) : ~fh.chased[j].ok}}

LastPrimary(k) ==
    fh.assigned[CHOOSE i \in 1..Len(fh.assigned) :
                   /\ fh.assigned[i].key = k
                   /\ \A j \in (i + 1)..Len(fh.assigned) : fh.assigned[j].key # k]

\* C8: whichever chased fetches fail, the operation returns, with one record
\* per distinct primary key (its last occurrence), one per chased key whose
\* fetch succeeded and none for a chased key whose fetch failed; it fails
\* only when the primary search fails.
C8_PartialChase ==
    /\ fh.pc = "raised" <=> fh.primary = "raised"
    /\ (fh.primary = "ok" /\ fh.extra_keys = {}) => fh.pc = "returned"
    /\ fh.pc = "returned" =>
          /\ DOMAIN fh.issues_by_key = PrimaryKeys \cup Succeeded
          /\ Failed \cap DOMAIN fh.issues_by_key = {}
          /\ \A k \in PrimaryKeys : fh.issues_by_key[k] = LastPrimary(k)
          /\ \A i \in 1..Len(fh.chased) :
                fh.chased[i].ok => fh.issues_by_key[fh.chased[i].key] = fh.chased[i].issue

\* C8 witness: one chased fetch failed, another succeeded, and the primary
\* list held the same key twice.
C8_Witness ==
    /\ fh.pc = "returned"
    /\ Failed # {} /\ Succeeded # {}
    /\ Len(fh.assigned) = 2 /\ Cardinality(PrimaryKeys) = 1
    /\ fh.assigned[1] # fh.assigned[2]

Resolved(r) == \A k \in Keys : References(r, k) => k \in DOMAIN fh.issues_by_key

\* C9 as claimed: when every fetch succeeded, no record of the returned set
\* references a key outside the returned set.
C9_NoDanglingAnywhere ==
    (fh.pc = "returned" /\ Failed = {}) =>
        \A k \in DOMAIN fh.issues_by_key : Resolved(fh.issues_by_key[k])

\* C9 as amended: when every fetch succeeded, every key referenced by a
\* primary record is the key of a returned record (the records the chase
\* fetched may reference keys that were not fetched).
C9_PrimaryReferencesResolved ==
    (fh.pc = "returned" /\ Failed = {}) =>
        \A i \in 1..Len(fh.assigned) : Resolved(fh.assigned[i])

\* C9 witness: the chase fetched the parent of a primary record, and that
\* parent names a parent of its own that no one fetched.
C9_Witness ==
    /\ fh.pc = "returned"
    /\ Failed = {}
    /\ fh.assigned = <<[key |-> "A", fields |-> Fields(Ref("B"), <<>>, <<>>)]>>
    /\ fh.chased # <<>>
    /\ fh.issues_by_key["B"].fields.parent.key = "C"

(***************************************************************************)
(* Claims about the permit pool (under SpecGate)                           *)
(***************************************************************************)
\* The requests to the remote API that are in flight.
InFlight ==
    {c \in Callers : gate.callers[c].pc \in {"in_flight", "blocking_in_flight"}}

\* C10: at every instant at most 3 requests to the remote API are in
\* flight, whichever route issued them.
C10_InFlightCap == Cardinality(InFlight) <= SemaphorePermits

\* The fetch_page calls that are inside `async with _JIRA_SEMAPHORE`: from
\* the first attempt to the end of the attempt sequence, sleeps included.
Holders ==
    {c \in Callers : /\ gate.callers[c].route = "issues"
                     /\ gate.callers[c].pc \in {"attempt", "in_flight", "sleeping"} \cup FetchAnswers}

\* The fetch_page calls queued in acquire().
Waiting == {c \in Callers : gate.callers[c].pc = "waiting"}

\* C11: every fetch_page call between its first attempt and the end of its
\* attempt sequence (retries and sleeps included) holds one permit and no
\* other call holds one, so the free permits and the calls in progress add
\* up to 3; a queued call holds none; when no fetch_page call is in progress
\* all 3 permits are free.
C11_PermitHeldAndReturned ==
    /\ gate.value >= 0
    /\ gate.value + Cardinality(Holders) = SemaphorePermits
    /\ Waiting = {gate.waiters[i] : i \in 1..Len(gate.waiters)}
    /\ Waiting \cap Holders = {}
    /\ Holders = {} => (gate.value = SemaphorePermits /\ gate.waiters = <<>>)

\* C11 witness: all permits are out, one holder sleeps between its second and
\* third attempt, another sleeps after its last attempt, and a caller queues.
C11_Witness ==
    /\ gate.value = 0
    /\ gate.waiters # <<>>
    /\ \E c \in Holders : gate.callers[c].pc = "sleeping" /\ gate.callers[c].attempt = 1
    /\ \E c \in Holders : gate.callers[c].pc = "sleeping"
                          /\ gate.callers[c].attempt = FetchAttempts - 1

(***************************************************************************)
(* Claims about build_tree and flatten_tree (under SpecTree)               *)
(***************************************************************************)
Elements(q) == {q[i] : i \in 1..Len(q)}

KeysOf(issues) == {issues[i].key : i \in 1..Len(issues)}

DistinctKeys(issues) == Cardinality(KeysOf(issues)) = Len(issues)

\* The record the index keeps for key k: the last one of the list.
LastRecord(issues, k) ==
    issues[CHOOSE i \in 1..Len(issues) :
              /\ issues[i].key = k
              /\ \A j \in (i + 1)..Len(issues) : issues[j].key # k]

\* The nodes of the returned forest and the children of one of them.
TreeNodes == DOMAIN tr.tree.children
ChildrenOf(k) == Elements(tr.tree.children[k])

\* C12: the structure build_tree returns is a forest, whatever the parent
\* references of the input (self-parents and loops included): no node is
\* below itself, no node is under two parents, no root is also a child.
C12_Forest ==
    tr.pc # "idle" =>
        /\ \A k \in TreeNodes : k \notin reached_from(tr.tree.children, ChildrenOf(k))
        /\ \A k \in TreeNodes : Cardinality({p \in TreeNodes : k \in ChildrenOf(p)}) <= 1
        /\ \A k \in Elements(tr.tree.roots) : \A p \in TreeNodes : k \notin ChildrenOf(p)

\* C12 witness: two records name each other as parent, a third one is a
\* root, and the tree was built.
C12_Witness ==
    /\ tr.pc = "built"
    /\ Len(tr.issues) = 3
    /\ tr.issues[1].parent = tr.issues[2].key
    /\ tr.issues[2].parent = tr.issues[1].key
    /\ tr.issues[1].key # tr.issues[2].key
    /\ tr.tree.roots = <<tr.issues[3].key>>

\* The keys above k along parent references that resolve in the dataset.
RECURSIVE AncestorsIn(_, _, _)
AncestorsIn(issues, k, seen) ==
    LET p == LastRecord(issues, k).parent
    IN  IF p \notin KeysOf(issues) \/ p \in seen THEN seen
        ELSE AncestorsIn(issues, p, seen \cup {p})

\* C13 as claimed: for records with pairwise-distinct keys, whatever their
\* parent references, flatten_tree(build_tree(records)) holds each record
\* once, fields unchanged, _depth the number of its ancestors in the
\* dataset, and after its parent.
C13_RoundTrip ==
    (tr.pc = "flat" /\ DistinctKeys(tr.issues)) =>
        /\ Len(tr.flat) = Len(tr.issues)
        /\ \A i \in 1..Len(tr.issues) :
              \E j \in 1..Len(tr.flat) :
                  /\ tr.flat[j].key = tr.issues[i].key
                  /\ tr.flat[j].parent = tr.issues[i].parent
                  /\ tr.flat[j]._depth = Cardinality(AncestorsIn(tr.issues, tr.issues[i].key, {}))
                  /\ tr.issues[i].parent \in KeysOf(tr.issues) =>
                        \E h \in 1..(j - 1) : tr.flat[h].key = tr.issues[i].parent

\* Strictly ascending, and ascending, in Python's order of strings.
StrictlyAscending(q) == \A i, j \in 1..Len(q) : i < j => str_lt(q[i], q[j])
Ascending(q) == \A i, j \in 1..Len(q) : i < j => ~str_lt(q[j], q[i])

\* C14: the root list is ascending by key and the children list of every
\* node of the forest is strictly ascending by key.
C14_Sorted ==
    tr.pc # "idle" =>
        /\ Ascending(tr.tree.roots)
        /\ \A k \in TreeNodes : StrictlyAscending(tr.tree.children[k])

\* C14 witness: the children "2" and "10" of "1" came in that order and are
\* returned as "10", "2".
C14_Witness ==
    /\ tr.pc = "built"
    /\ Len(tr.issues) = 3
    /\ tr.issues[1].key = <<"2">>
    /\ tr.issues[2].key = <<"1", "0">>
    /\ <<"1">> \in TreeNodes
    /\ tr.tree.children[<<"1">>] = << <<"1", "0">>, <<"2">> >>

\* C15: every ordering of a list of records with pairwise-distinct keys
\* gives the same forest: same roots in the same order, same children in
\* the same order under every node, same fields.
C15_OrderIndependent ==
    (tr.pc # "idle" /\ DistinctKeys(tr.issues)) =>
        \A p \in Permutations(1..Len(tr.issues)) :
            build_tree([i \in 1..Len(tr.issues) |-> tr.issues[p[i]]]) = tr.tree

\* C15 witness: three records with distinct keys given in an order that is
\* not the order of their keys, one of them with two children.
C15_Witness ==
    /\ tr.pc = "built"
    /\ Len(tr.issues) = 3
    /\ DistinctKeys(tr.issues)
    /\ ~StrictlyAscending([i \in 1..3 |-> tr.issues[i].key])
    /\ \E k \in TreeNodes : Len(tr.tree.children[k]) = 2

\* C16 as claimed: for every input list the forest holds exactly one node
\* per distinct key, with the fields of the last record of that key.
C16_OneNodePerKey ==
    tr.pc # "idle" =>
        /\ TreeNodes = KeysOf(tr.issues)
        /\ \A k \in TreeNodes : tr.tree.node[k] = LastRecord(tr.issues, k)
        /\ \A k \in TreeNodes :
              Cardinality({i \in 1..Len(tr.tree.roots) : tr.tree.roots[i] = k})
              + Cardinality({<<p, i>> \in TreeNodes \X (1..MaxIssues) :
                                i <= Len(tr.tree.children[p]) /\ tr.tree.children[p][i] = k})
              = 1

\* The record is among the roots: a root node has its key and its fields.
AmongRoots(r) ==
    /\ r.key \in Elements(tr.tree.roots)
    /\ tr.tree.node[r.key] = r

Orphan(issues, r) == r.parent # NoParentKey /\ r.parent \notin KeysOf(issues)

\* C17 as claimed: a record is among the roots exactly when it has no parent
\* key or its parent key is not in the dataset, and the orphan count is the
\* number of records with a parent key that is not in the dataset.
C17_RootsAndOrphansPerRecord ==
    tr.pc # "idle" =>
        /\ \A i \in 1..Len(tr.issues) :
              AmongRoots(tr.issues[i])
              <=> (tr.issues[i].parent = NoParentKey \/ Orphan(tr.issues, tr.issues[i]))
        /\ tr.tree.orphan_count
           = Cardinality({i \in 1..Len(tr.issues) : Orphan(tr.issues, tr.issues[i])})

\* C17 as amended: of the records the index keeps (the last record of each
\* key), one is among the roots exactly when it has no parent key or its
\* parent key is not in the dataset, and the orphan count is the number of
\* kept records with a parent key that is not in the dataset.
C17_RootsAndOrphansPerKey ==
    tr.pc # "idle" =>
        /\ \A k \in KeysOf(tr.issues) :
              LET r == LastRecord(tr.issues, k)
              IN  AmongRoots(r) <=> (r.parent = NoParentKey \/ Orphan(tr.issues, r))
        /\ tr.tree.orphan_count
           = Cardinality({k \in KeysOf(tr.issues) : Orphan(tr.issues, LastRecord(tr.issues, k))})

\* C17 witness: three records name a parent that is not in the dataset, two
\* of them share a key; two nodes are roots and two orphans were counted.
C17_Witness ==
    /\ tr.pc = "built"
    /\ Len(tr.issues) = 3
    /\ \A i \in 1..3 : tr.issues[i].parent = AbsentKey
    /\ tr.issues[1].key = tr.issues[2].key
    /\ Len(tr.tree.roots) = 2
    /\ tr.tree.orphan_count = 2

(***************************************************************************)
(* Claims about the snapshot files (under SpecStore)                       *)
(***************************************************************************)
\* C18 as claimed: after n save_snapshot calls there are n archive files,
\* and each call's file still holds the records that call wrote.
C18_ArchivesKept ==
    /\ Cardinality(DOMAIN snap.archive) = Len(snap.saved)
    /\ \A i \in 1..Len(snap.saved) :
          snap.archive[snap.saved[i].stamp] = snap.saved[i].issues

\* C19 as claimed: at every instant the tree a reader loads from
\* tasks_tree.json is build_tree of the records it loads from tasks.json.
C19_LatestFilesAgree ==
    load_latest_tree(snap) = forest_of(build_tree(load_latest_issues(snap)))

(***************************************************************************)
(* Claims about SQLiteStore (under SpecHistory)                            *)
(***************************************************************************)
Count(q, e) == Cardinality({i \in 1..Len(q) : q[i] = e})

\* The same entries, each as many times, in any order.
SameEntries(a, b) ==
    /\ Len(a) = Len(b)
    /\ \A i \in 1..Len(a) : Count(a, a[i]) = Count(b, a[i])

\* The entries call c owes to key K: one per record of the call with key K.
RECURSIVE CallEntries(_, _, _)
CallEntries(c, K, n) ==
    IF n = 0 THEN <<>>
    ELSE LET r == db.calls[c].issues[n]
         IN  CallEntries(c, K, n - 1)
             \o (IF r.key = K
                 THEN <<[timestamp |-> db.calls[c].now, status |-> r.status,
                         priority |-> r.priority, assignee |-> r.assignee,
                         summary |-> r.summary]>>
                 ELSE <<>>)

\* The entries of the first c calls for key K, call after call.
RECURSIVE EntriesUpTo(_, _)
EntriesUpTo(c, K) ==
    IF c = 0 THEN <<>>
    ELSE EntriesUpTo(c - 1, K) \o CallEntries(c, K, Len(db.calls[c].issues))

\* History h lists the entries of key K call after call.
InCallOrder(h, K) ==
    /\ Len(h) = Len(EntriesUpTo(Len(db.calls), K))
    /\ \A c \in 1..Len(db.calls) :
          SameEntries(SubSeq(h, Len(EntriesUpTo(c - 1, K)) + 1, Len(EntriesUpTo(c, K))),
                      CallEntries(c, K, Len(db.calls[c].issues)))

\* History h lists the entries of key K by the timestamp of their call.
InTimestampOrder(h, K) ==
    /\ SameEntries(h, EntriesUpTo(Len(db.calls), K))
    /\ \A i, j \in 1..Len(h) : i < j => h[i].timestamp <= h[j].timestamp

CallsWith(K) ==
    {c \in 1..Len(db.calls) : \E i \in 1..Len(db.calls[c].issues) : db.calls[c].issues[i].key = K}

\* The issues table has one row per key recorded so far; its first_seen is
\* the time of the first call that held the key.
IssuesTableKept ==
    /\ DOMAIN db.issues = {K \in HistoryKeys : CallsWith(K) # {}}
    /\ \A K \in DOMAIN db.issues :
          db.issues[K].first_seen
          = db.calls[CHOOSE c \in CallsWith(K) : \A e \in CallsWith(K) : c <= e].now

\* C20 as claimed: get_snapshots holds one row per record_sync call,
\* get_issue_history(K) one entry per (call, record with key K) in call
\* order with the fields of that call, and the issues table one row per key
\* with the first_seen of the first call that held it.
C20_HistoryInCallOrder ==
    /\ Len(get_snapshots(db, get_snapshots_limit)) = Len(db.calls)
    /\ \A K \in HistoryKeys : \A h \in get_issue_history(db, K) : InCallOrder(h, K)
    /\ IssuesTableKept

\* C20 as amended: the snapshots table holds one row per call, of which
\* get_snapshots returns the latest `limit` (20 by default), newest first;
\* get_issue_history(K) holds one entry per (call, record with key K) with
\* the fields of that call, ordered by the timestamps of the calls; the
\* issues table is as claimed.
C20_HistoryInTimestampOrder ==
    /\ Len(db.snapshots) = Len(db.calls)
    /\ LET got == get_snapshots(db, get_snapshots_limit)
       IN  /\ Len(got) = Min(get_snapshots_limit, Len(db.calls))
           /\ \A i \in 1..Len(got) :
                 /\ got[i].id = Len(db.calls) - i + 1
                 /\ got[i].timestamp = db.calls[got[i].id].now
    /\ \A K \in HistoryKeys : \A h \in get_issue_history(db, K) : InTimestampOrder(h, K)
    /\ IssuesTableKept

\* C20 witness: more calls than get_snapshots returns; the first two held
\* key A with different statuses, the second at an earlier clock reading,
\* so that the later status is listed first.
C20_Witness ==
    /\ Len(db.calls) > get_snapshots_limit
    /\ db.calls[1].now > db.calls[2].now
    /\ \E h \in get_issue_history(db, "A") :
          /\ Len(h) = 2
          /\ h[1].status = "Done" /\ h[2].status = "Open"
    /\ db.issues["A"].first_seen = db.calls[1].now

\* The most search calls one fetch can make: the pages before the cap.
MaxSearchCalls == MAX_ISSUES_HARD_CAP \div page_size

\* C28: fetch_all_assigned terminates whatever the server answers: every page
\* after which the loop goes on held at least page_size records, at most 5
\* search calls are made, a fetch that returned with no page longer than
\* page_size holds at most 500 records, and a fetch that runs ends.
C28_Terminates ==
    /\ [](/\ Len(fa.calls) <= MaxSearchCalls
          /\ Len(fa.pages) <= Len(fa.calls)
          /\ \A i \in 1..Len(fa.pages) :
                (i < Len(fa.pages) \/ fa.pc = "loop") => fa.pages[i].issues >= page_size
          /\ (/\ fa.pc = "returned"
              /\ \A i \in 1..Len(fa.pages) : fa.pages[i].issues <= page_size)
                => fa.all_issues <= MAX_ISSUES_HARD_CAP)
    /\ (fa.pc = "loop" ~> fa.pc \in {"returned", "raised"})

\* C28 witness: a fetch the hard cap ended, after 5 full pages.
C28_Witness ==
    /\ fa.pc = "returned"
    /\ Len(fa.pages) = MaxSearchCalls
    /\ \A i \in 1..Len(fa.pages) : fa.pages[i].issues = page_size
    /\ ~loop_breaks([fa EXCEPT !.start_at = @ - page_size], fa.pages[Len(fa.pages)])
    /\ fa.all_issues = MAX_ISSUES_HARD_CAP

\* The configured keywords as typed: the non-blank pieces of the setting.
ConfiguredKeywords(s) ==
    LET typed == blocked_keywords_as_typed(s)
    IN  {typed[i] : i \in 1..Len(typed)}

\* a contains b, letter case set aside.
ContainsIgnoringCase(a, b) == contains(lower(a), lower(b))

\* The record has a link whose relation holds a configured keyword, or it
\* carries the configured flag.
HasBlockingLink(issue, s) ==
    \E i \in 1..Len(issue.links) : \E kw \in ConfiguredKeywords(s) :
        /\ ~issue.links[i].relation.null
        /\ ContainsIgnoringCase(issue.links[i].relation.chars, kw)

IsFlagged(issue, s) == s.blocked_flag_field # None /\ issue.flagged

DoneWords == _DONE_CATEGORIES_LOWER

\* The status category equals a done word in some letter case.
DoneInSomeLetterCase(issue) ==
    /\ ~issue.statusCategory.null
    /\ lower(issue.statusCategory.chars) \in DoneWords

\* The status category, blanks around it set aside, equals a done word in
\* some letter case.
DoneOnceStripped(issue) ==
    /\ ~issue.statusCategory.null
    /\ lower(strip(issue.statusCategory.chars)) \in DoneWords

\* The records of one rank_next result.
RankedIssues(call) == [i \in 1..Len(call.out) |-> call.out[i].issue]

\* C22 as stated: no record whose statusCategory equals a done word in any
\* letter case is in the output, and every other record is a candidate: with
\* top no less than the length of the input, the output holds exactly the
\* other records.
C22_DoneExcluded ==
    \A c \in 1..Len(qr.ranked) :
        LET out == RankedIssues(qr.ranked[c])
            others == SelectSeq(qr.issues, LAMBDA r : ~DoneInSomeLetterCase(r))
        IN  /\ \A i \in 1..Len(out) : ~DoneInSomeLetterCase(out[i])
            /\ qr.top >= Len(qr.issues) =>
                  /\ Len(out) = Len(others)
                  /\ \A i \in 1..Len(others) : \E j \in 1..Len(out) : out[j] = others[i]

\* C22 as amended: the comparison is made after stripping the blanks around
\* the status category.
C22_DoneExcludedOnceStripped ==
    \A c \in 1..Len(qr.ranked) :
        LET out == RankedIssues(qr.ranked[c])
            others == SelectSeq(qr.issues, LAMBDA r : ~DoneOnceStripped(r))
        IN  /\ \A i \in 1..Len(out) : ~DoneOnceStripped(out[i])
            /\ qr.top >= Len(qr.issues) =>
                  /\ Len(out) = Len(others)
                  /\ \A i \in 1..Len(others) : \E j \in 1..Len(out) : out[j] = others[i]

\* C22 witness: of two records, one whose category is done only once the
\* blanks around it are stripped and one whose category is none, rank_next
\* with top = 2 returned the second alone.
C22_Witness ==
    /\ qr.pc = "ranked"
    /\ qr.top = 2 /\ Len(qr.issues) = 2
    /\ DoneOnceStripped(qr.issues[1]) /\ ~DoneInSomeLetterCase(qr.issues[1])
    /\ qr.issues[2].statusCategory.null
    /\ RankedIssues(qr.ranked[1]) = <<qr.issues[2]>>

\* The parts of a score as the ranking rules give them.
ExpectedPriority(priority) ==
    IF priority = "Highest" THEN 100
    ELSE IF priority = "High" THEN 75
    ELSE IF priority = "Medium" THEN 50
    ELSE IF priority = "Low" THEN 25
    ELSE IF priority = "Lowest" THEN 10
    ELSE 30

ExpectedDueDate(due, now) ==
    IF due.parse # "ok" THEN 0
    ELSE IF due.hours < now THEN 80
    ELSE IF due.hours < now + 24 THEN 60
    ELSE IF due.hours < now + 3 * 24 THEN 40
    ELSE IF due.hours < now + 7 * 24 THEN 20
    ELSE 5

ExpectedRecency(updated, now) ==
    IF updated.parse # "ok" THEN 0
    ELSE IF updated.hours > now - 4 THEN 15
    ELSE IF updated.hours > now - 24 THEN 10
    ELSE IF updated.hours > now - 72 THEN 5
    ELSE 0

\* The keys find_blocked flags on the full input list.
FlaggedKeys ==
    {qr.issues[i].key : i \in {j \in 1..Len(qr.issues) :
                                  \/ HasBlockingLink(qr.issues[j], qr.settings)
                                  \/ IsFlagged(qr.issues[j], qr.settings)}}

\* C23: every entry rank_next returns has score = priority + due_date +
\* recency + blocked_penalty, each part as the ranking rules give it at the
\* time of the call, the penalty being -50 exactly for the keys find_blocked
\* flags on the full input list.
C23_ScoreIsSumOfParts ==
    \A c \in 1..Len(qr.ranked) : \A i \in 1..Len(qr.ranked[c].out) :
        LET e == qr.ranked[c].out[i]
            now == qr.ranked[c].now
        IN  /\ e.breakdown.priority = ExpectedPriority(e.issue.priority)
            /\ e.breakdown.due_date = ExpectedDueDate(e.issue.dueDate, now)
            /\ e.breakdown.recency = ExpectedRecency(e.issue.updated, now)
            /\ e.breakdown.blocked_penalty = (IF e.issue.key \in FlaggedKeys THEN -50 ELSE 0)
            /\ e.score = e.breakdown.priority + e.breakdown.due_date
                         + e.breakdown.recency + e.breakdown.blocked_penalty

\* C23 witness: a returned record without links or flag carries the penalty
\* because another record of the list has its key and a blocking link.
C23_Witness ==
    /\ qr.pc = "ranked"
    /\ \E i \in 1..Len(qr.ranked[1].out) :
          LET e == qr.ranked[1].out[i]
          IN  /\ e.issue.links = <<>>
              /\ e.breakdown.blocked_penalty = -50
              /\ e.breakdown.due_date = 60
              /\ e.score = 40

\* The positions of the records rank_next ranks, in the order a stable
\* descending sort by score leaves them.
StableOrder(call) ==
    LET open == {i \in 1..Len(qr.issues) : ~_is_done_category(qr.issues[i].statusCategory)}
        score(i) == rank_entry(qr.issues[i], qr.issues, qr.settings, call.now).score
    IN  CHOOSE p \in [1..Cardinality(open) -> open] :
            \A a, b \in 1..Cardinality(open) :
                a < b => \/ score(p[a]) > score(p[b])
                         \/ score(p[a]) = score(p[b]) /\ p[a] < p[b]

\* C24: the output is in non-increasing score order, ties in input order,
\* and is exactly the first min(top, number of non-done records) entries of
\* that ordering.
C24_FirstTopOfStableOrder ==
    \A c \in 1..Len(qr.ranked) :
        LET order == StableOrder(qr.ranked[c])
            out == RankedIssues(qr.ranked[c])
        IN  out = SubSeq([i \in 1..Len(order) |-> qr.issues[order[i]]],
                         1, Min(qr.top, Len(order)))

\* What holds of C24: the same for every top that is not negative.
C24_ForTopNotNegative ==
    qr.top >= 0 => C24_FirstTopOfStableOrder

\* C25: calls of rank_next on the same input return the same entries in
\* the same order, whenever they are made.
C25_SameInputSameOutput ==
    \A c, d \in 1..Len(qr.ranked) : qr.ranked[c].out = qr.ranked[d].out

\* What holds of C25: calls that read the same time return the same.
C25_SameInputSameClock ==
    \A c, d \in 1..Len(qr.ranked) :
        qr.ranked[c].now = qr.ranked[d].now => qr.ranked[c].out = qr.ranked[d].out

\* The 19 keys of the canonical schema.
CanonicalKeys ==
    {"key", "id", "projectKey", "type", "summary", "status", "statusCategory",
     "priority", "assignee", "created", "updated", "dueDate", "description_plain",
     "description_raw", "parent", "subtasks", "links", "labels", "components"}

\* C26: whatever the raw record, normalize_issue returns without raising
\* and the key set of its result is the canonical set of 19 keys.
C26_AlwaysCanonical ==
    nz.pc = "done" =>
        /\ ~nz.out.raised
        /\ DOMAIN nz.out.value = CanonicalKeys
        /\ Cardinality(CanonicalKeys) = 19

\* What holds of C26: a call that returns, returns the canonical key set,
\* and a record without "fields" or with an empty one gives null fields.
C26_CanonicalWhenReturned ==
    (nz.pc = "done" /\ ~nz.out.raised) =>
        /\ DOMAIN nz.out.value = CanonicalKeys
        /\ GetOr(nz.raw, "fields", EmptyDict) = EmptyDict =>
              \A k \in CanonicalKeys \ {"key", "id", "subtasks", "links", "labels", "components"} :
                  nz.out.value[k] = JNull

\* The type's name, a type without name having the empty one.
TypeName(link) == GetOr(GetOr(link, "type", EmptyDict), "name", JStr(""))

\* The type's label for a direction, the type's name when it has none.
LabelOrName(link, label) == GetOr(GetOr(link, "type", EmptyDict), label, TypeName(link))

\* The raw links of the record normalize_issue was given.
RawLinks == nz.raw.d.fields.d.issuelinks.q

\* C27: for a record whose links are well formed, normalize_issue returns
\* one normalized link per raw link in the same order: inward with the
\* inward label for a link with an inward issue, outward with the outward
\* label for one with an outward issue, the type's name where the label is
\* missing, and for a link with neither direction "unknown", the type's name
\* as relation and null linked fields.
C27_OneLinkPerRawLink ==
    (nz.pc = "done" /\ nz.raw \in LinkRaws) =>
        /\ ~nz.out.raised
        /\ Len(nz.out.value.links) = Len(RawLinks)
        /\ \A i \in 1..Len(RawLinks) :
              LET raw == RawLinks[i]
                  link == nz.out.value.links[i]
              IN  /\ link.type = TypeName(raw)
                  /\ "inwardIssue" \in DOMAIN raw.d =>
                        /\ link.direction = "inward"
                        /\ link.relation = LabelOrName(raw, "inward")
                        /\ link.linked_key = Get(raw.d.inwardIssue, "key")
                  /\ "outwardIssue" \in DOMAIN raw.d =>
                        /\ link.direction = "outward"
                        /\ link.relation = LabelOrName(raw, "outward")
                        /\ link.linked_key = Get(raw.d.outwardIssue, "key")
                  /\ DOMAIN raw.d \cap {"inwardIssue", "outwardIssue"} = {} =>
                        /\ link.direction = "unknown"
                        /\ link.relation = TypeName(raw)
                        /\ link.linked_key = JNull /\ link.linked_summary = JNull
                        /\ link.linked_status = JNull /\ link.linked_status_category = JNull

\* C27 witness: a record with two links, the first with an outward issue
\* and a type that has labels, the second with neither issue, came back
\* with an outward link under the outward label and an unknown one.
C27_Witness ==
    /\ nz.pc = "done" /\ nz.raw \in LinkRaws
    /\ Len(RawLinks) = 2
    /\ "outwardIssue" \in DOMAIN RawLinks[1].d
    /\ nz.out.value.links[1].relation = JStr("blocks")
    /\ nz.out.value.links[1].relation # nz.out.value.links[1].type
    /\ nz.out.value.links[2].direction = "unknown"

\* The answer the last request got came from the cache.
FromCache == ch.pc = "served" /\ \E a \in ch.answer : a.source = "cache"

\* C29: an answer from the cache was stored for the same request parameters
\* less than 60 seconds earlier, and an entry the read found expired is gone
\* from the cache and the request goes on as a miss.
C29_CacheKeyedByParameters ==
    /\ FromCache => \A a \in ch.answer : a.data = ch.params /\ a.age < default_ttl
    /\ (ch.pc = "fetching" /\ ch.expired) => entry_of(ch.cache, cache_key(ch.params)) = {}

\* What holds of C29: an answer from the cache was stored under the same
\* key less than 60 seconds earlier, and expired entries are removed.
C29_CacheKeyedByKey ==
    /\ FromCache => \A a \in ch.answer : cache_key(a.data) = cache_key(ch.params) /\ a.age < default_ttl
    /\ (ch.pc = "fetching" /\ ch.expired) => entry_of(ch.cache, cache_key(ch.params)) = {}
    /\ \A en, other \in ch.cache : en.key = other.key => en = other

\* C30: when the constructor or fetch_with_hierarchy fails during a sync,
\* the sync writes nothing: no archive file is created, tasks.json and
\* tasks_tree.json keep their previous content, no history row is recorded.
C30_FailedSyncWritesNothing ==
    sy.error # None =>
        /\ snap.archive = sy.before.archive
        /\ Len(snap.saved) = sy.before.saved
        /\ snap.sync[sy.who].pc = "idle"
        /\ snap.tasks = sy.before.tasks
        /\ snap.tasks_tree = sy.before.tasks_tree
        /\ db = sy.before.db

\* C30 witness: a sync with --use-db fails on a transport error after an
\* earlier sync saved a non-empty snapshot and recorded it.
C30_Witness ==
    /\ sy.pc = "failed" /\ sy.error = "transport" /\ sy.use_db
    /\ snap.tasks.exists /\ snap.tasks.content # <<>>
    /\ snap.tasks_tree.exists
    /\ DOMAIN snap.archive # {}
    /\ Len(db.snapshots) = 1

\* C30 witness for the other cause: a sync stopped by a configuration error.
C30_ConfigError ==
    sy.pc = "failed" /\ sy.error = "config" /\ jc.ctor = "JiraClientError"

====
